---------------------------- MODULE Spec2Model ----------------------------
(***************************************************************************)
(* FastDFS Rust client (rust_client/src): the connection pool              *)
(* (connection.rs), the operation engine (operations.rs) and the client    *)
(* facade (client.rs) as a state machine.                                  *)
(*                                                                         *)
(* Every critical section of a tokio Mutex / RwLock is one atomic step; a  *)
(* task is between two steps exactly where the code awaits.                *)
(*                                                                         *)
(*   SpecPool : tasks call get / put / add_addr / close on one pool.       *)
(*   Spec     : tasks call the public operations of one Client.            *)
(***************************************************************************)
EXTENDS Integers, Sequences, FiniteSets, TLC

(***************************************************************************)
(* Bounds of the model.                                                    *)
(***************************************************************************)
NumPoolTasks == 3      \* tasks of SpecPool
NumTasks == 1          \* tasks of Spec that call every public operation
NumClosers == 1        \* tasks of Spec that call Client::close only
MaxConns == 2          \* TCP connections open at the same time
MaxElapsed == 2        \* elapsed time is counted up to this many ticks
IdleTimeout == 1       \* the configured idle_timeout, in ticks
MaxMaxConns == 1       \* largest configured max_conns
MaxRetry == 2          \* largest configured retry_count
MaxBudget == 3         \* largest configured retry_count of SpecSeq

PoolTasks == 1..NumPoolTasks
ClientTasks == 1..NumTasks
CloseTasks == (NumTasks + 1)..(NumTasks + NumClosers)
AllTasks == PoolTasks \cup ClientTasks \cup CloseTasks
ConnIds == 1..MaxConns

(***************************************************************************)
(* Endpoints.  The tracker pool is built from the configured tracker       *)
(* addresses, the storage pool from an empty list (client.rs 50-62).       *)
(***************************************************************************)
NoAddr == "none"                     \* get(None)
NoConn == 0
TrackerAddrs == <<"t1", "t2">>
StorageAddrs == {"s1", "s2"}
PoolIds == {"tracker", "storage"}
PoolAddrs(p) == IF p = "tracker" THEN TrackerAddrs ELSE <<>>

VARIABLES
    max_conns,      \* ClientConfig.max_conns
    retry_count,    \* ClientConfig.retry_count
    closed,         \* ConnectionPool.closed, per pool
    pools,          \* ConnectionPool.pools, per pool: endpoint -> Vec<Connection>
    conns,          \* the Connections: TCP streams open or not
    clientClosed,   \* Client.closed
    pc,             \* each task's position
    ret,            \* where the pool call in progress returns to
    pl,             \* the pool the task's current call or exchange is on
    arg,            \* the addr argument of get / add_addr
    conn,           \* the task's local `conn`
    res,            \* result of the last pool call, attempt or operation
    op,             \* the operation the task runs and its progress
    owed,           \* history: the task's checkouts minus its puts and drops
    req,            \* the arguments of the request or codec call under way
    written,        \* what it has sent or returned so far, in order
    held            \* the MutexGuards each task has: <<pool, "closed" | "pools">>

cfgVars == <<max_conns, retry_count>>
poolVars == <<closed, pools, conns>>
callVars == <<pc, ret, pl, arg, conn, res>>
histVars == <<owed>>
wireVars == <<req, written>>
lockVars == <<held>>
vars == <<max_conns, retry_count, closed, pools, conns, clientClosed,
          pc, ret, pl, arg, conn, res, op, owed, req, written, held>>

(***************************************************************************)
(* Connection (connection.rs 21-97).                                       *)
(*   st      : "free" (no such stream) | "open"                            *)
(*   elapsed : Instant::now() - last_used, counted up to MaxElapsed        *)
(*   wire    : what the stream still holds of the server's responses       *)
(*             "clean" | "resp" (a whole response is due) |                *)
(*             "body" (the header was read, body bytes are unread) |       *)
(*             "dirty" (a request was written behind unread bytes)         *)
(***************************************************************************)
NoConnection == [st |-> "free", addr |-> NoAddr, elapsed |-> 0,
                 wire |-> "clean"]

\* Connection::new
ConnectionNew(a) == [st |-> "open", addr |-> a, elapsed |-> 0,
                     wire |-> "clean"]

\* Dropping Connections closes their streams.
DropAll(cs) == [c \in ConnIds |-> IF c \in cs THEN NoConnection ELSE conns[c]]

\* conn.last_used().elapsed()
Elapsed(c) == conns[c].elapsed

Open == {c \in ConnIds : conns[c].st = "open"}

SeqElems(s) == {s[i] : i \in 1..Len(s)}

Idle(p) == UNION {SeqElems(pools[p][e]) : e \in DOMAIN pools[p]}

(***************************************************************************)
(* ConnectionPool::new                                                     *)
(***************************************************************************)
PoolNew(addrs) == [e \in SeqElems(addrs) |-> <<>>]

(***************************************************************************)
(* Return from a pool call: the result r, the caller's conn c.  An address *)
(* passed by a task that called the pool directly goes out of scope.       *)
(***************************************************************************)
Return(t, r, c) ==
    /\ pc' = [pc EXCEPT ![t] = ret[t]]
    /\ ret' = [ret EXCEPT ![t] = "idle"]
    /\ res' = [res EXCEPT ![t] = r]
    /\ conn' = [conn EXCEPT ![t] = c]
    /\ arg' = [arg EXCEPT ![t] = IF ret[t] = "idle" THEN NoAddr ELSE @]
    /\ UNCHANGED pl

(***************************************************************************)
(* ConnectionPool::get                                                     *)
(***************************************************************************)
\* A get without the closed check.
GetChk_NoCheck(t) ==
    /\ pc[t] = "get_chk"
    /\ IF arg[t] = NoAddr /\ PoolAddrs(pl[t]) = <<>>
       THEN Return(t, "InvalidArgument", NoConn)
       ELSE /\ pc' = [pc EXCEPT ![t] = "get_lock"]
            /\ arg' = [arg EXCEPT ![t] = IF @ = NoAddr THEN PoolAddrs(pl[t])[1] ELSE @]
            /\ UNCHANGED <<ret, pl, conn, res>>
    /\ UNCHANGED <<cfgVars, wireVars, lockVars, poolVars, clientClosed, op, histVars>>

\* A get whose default is the last configured address.
GetChk_LastAddr(t) ==
    /\ pc[t] = "get_chk"
    /\ IF closed[pl[t]]
       THEN Return(t, "ClientClosed", NoConn)
       ELSE IF arg[t] = NoAddr /\ PoolAddrs(pl[t]) = <<>>
       THEN Return(t, "InvalidArgument", NoConn)
       ELSE /\ pc' = [pc EXCEPT ![t] = "get_lock"]
            /\ arg' = [arg EXCEPT ![t] = IF @ = NoAddr
                                         THEN PoolAddrs(pl[t])[Len(PoolAddrs(pl[t]))]
                                         ELSE @]
            /\ UNCHANGED <<ret, pl, conn, res>>
    /\ UNCHANGED <<cfgVars, wireVars, lockVars, poolVars, clientClosed, op, histVars>>

\* The closed check under the closed lock, then the choice of the address.
GetChk(t) ==
    /\ pc[t] = "get_chk"
    /\ IF closed[pl[t]]
       THEN Return(t, "ClientClosed", NoConn)
       ELSE IF arg[t] = NoAddr /\ PoolAddrs(pl[t]) = <<>>
       THEN Return(t, "InvalidArgument", NoConn)
       ELSE /\ pc' = [pc EXCEPT ![t] = "get_lock"]
            /\ arg' = [arg EXCEPT ![t] = IF @ = NoAddr THEN PoolAddrs(pl[t])[1] ELSE @]
            /\ UNCHANGED <<ret, pl, conn, res>>
    /\ UNCHANGED <<cfgVars, wireVars, lockVars, poolVars, clientClosed, op, histVars>>

\* conn.last_used().elapsed() < self.idle_timeout
\* A freshness test that takes an idle time equal to idle_timeout.
IsFresh_Inclusive(c) == Elapsed(c) <= IdleTimeout

\* conn.last_used().elapsed() < self.idle_timeout
IsFresh(c) == Elapsed(c) < IdleTimeout

\* while let Some(conn) = pool.pop(): the first fresh connection from the top,
\* what is left of the list, and the stale connections popped on the way.
RECURSIVE PopFresh(_)
PopFresh(lst) ==
    IF lst = <<>>
    THEN [got |-> NoConn, rest |-> <<>>, stale |-> {}]
    ELSE LET c == lst[Len(lst)]
             rest == SubSeq(lst, 1, Len(lst) - 1)
         IN  IF IsFresh(c)
             THEN [got |-> c, rest |-> rest, stale |-> {}]
             ELSE LET r == PopFresh(rest)
                  IN  [r EXCEPT !.stale = @ \cup {c}]

\* A get that hands out the fresh connection and leaves it in the list.
TakeFresh_Peek(lst) ==
    LET r == PopFresh(lst)
    IN  IF r.got = NoConn THEN r ELSE [r EXCEPT !.rest = Append(@, r.got)]

TakeFresh(lst) == PopFresh(lst)

\* if !pools.contains_key(&addr) { pools.insert(addr, Vec::new()) }
EnsureKey(m, a) ==
    IF a \in DOMAIN m
    THEN m
    ELSE [e \in DOMAIN m \cup {a} |-> IF e = a THEN <<>> ELSE m[e]]

\* The section under the pools lock.
GetLock(t) ==
    /\ pc[t] = "get_lock"
    /\ LET p == pl[t]
           a == arg[t]
           m == EnsureKey(pools[p], a)
           r == TakeFresh(m[a])
       IN  /\ pools' = [pools EXCEPT ![p] = [m EXCEPT ![a] = r.rest]]
           /\ conns' = DropAll(r.stale)
           /\ IF r.got # NoConn
              THEN /\ Return(t, "Ok", r.got)
                   /\ owed' = [owed EXCEPT ![t] = @ + 1]
              ELSE /\ pc' = [pc EXCEPT ![t] = "get_conn"]
                   /\ UNCHANGED <<ret, pl, arg, conn, res, histVars>>
    /\ UNCHANGED <<cfgVars, wireVars, lockVars, closed, clientClosed, op>>

FreeIds == {c \in ConnIds : conns[c].st = "free"}

\* create_connection: the connect succeeds, fails or times out.
GetConnect(t) ==
    /\ pc[t] = "get_conn"
    /\ \/ /\ FreeIds # {}
          /\ LET c == CHOOSE x \in FreeIds : \A y \in FreeIds : x <= y
             IN  /\ conns' = [conns EXCEPT ![c] = ConnectionNew(arg[t])]
                 /\ Return(t, "Ok", c)
          /\ owed' = [owed EXCEPT ![t] = @ + 1]
       \/ /\ \E e \in {"Network", "ConnectionTimeout"} : Return(t, e, NoConn)
          /\ UNCHANGED <<conns, histVars>>
    /\ UNCHANGED <<cfgVars, wireVars, lockVars, closed, pools, clientClosed, op>>

(***************************************************************************)
(* ConnectionPool::put.  The caller has moved its conn into the call.      *)
(***************************************************************************)
PutChk(t) ==
    /\ pc[t] = "put_chk"
    /\ IF closed[pl[t]]
       THEN /\ conns' = DropAll({conn[t]})
            /\ Return(t, res[t], NoConn)
       ELSE /\ pc' = [pc EXCEPT ![t] = "put_lock"]
            /\ UNCHANGED <<conns, ret, pl, arg, conn, res>>
    /\ UNCHANGED <<cfgVars, wireVars, lockVars, closed, pools, clientClosed, op, histVars>>

\* A clean_pool that keeps only what get would hand out.
RetainFresh_Strict(lst) == SelectSeq(lst, LAMBDA c : Elapsed(c) < IdleTimeout)

\* clean_pool: pool.retain(|conn| now - last_used <= idle_timeout)
RetainFresh(lst) == SelectSeq(lst, LAMBDA c : Elapsed(c) <= IdleTimeout)

\* A capacity test that lets one connection too many in.
AtCapacity_Off(lst) == Len(lst) > max_conns

\* pool.len() >= self.max_conns
AtCapacity(lst) == Len(lst) >= max_conns

\* A put that runs clean_pool although the free-list is at capacity.
PutLock_CleanWhenFull(t) ==
    /\ pc[t] = "put_lock"
    /\ LET p == pl[t]
           c == conn[t]
           a == conns[c].addr
       IN  IF a \notin DOMAIN pools[p]
           THEN /\ conns' = DropAll({c})
                /\ UNCHANGED pools
           ELSE IF AtCapacity(pools[p][a]) \/ Elapsed(c) > IdleTimeout
           THEN LET kept == RetainFresh(pools[p][a])
                IN  /\ pools' = [pools EXCEPT ![p][a] = kept]
                    /\ conns' = DropAll({c} \cup (SeqElems(pools[p][a]) \ SeqElems(kept)))
           ELSE LET pushed == Append(pools[p][a], c)
                    kept == RetainFresh(pushed)
                IN  /\ pools' = [pools EXCEPT ![p][a] = kept]
                    /\ conns' = DropAll(SeqElems(pushed) \ SeqElems(kept))
    /\ Return(t, res[t], NoConn)
    /\ UNCHANGED <<cfgVars, wireVars, lockVars, closed, clientClosed, op, histVars>>

\* A put that files every connection under the pool's first address.
PutLock_FirstKey(t) ==
    /\ pc[t] = "put_lock"
    /\ LET p == pl[t]
           c == conn[t]
           a == PoolAddrs(p)[1]
       IN  IF a \notin DOMAIN pools[p]
           THEN /\ conns' = DropAll({c})
                /\ UNCHANGED pools
           ELSE IF AtCapacity(pools[p][a])
           THEN /\ conns' = DropAll({c})
                /\ UNCHANGED pools
           ELSE IF Elapsed(c) > IdleTimeout
           THEN /\ conns' = DropAll({c})
                /\ UNCHANGED pools
           ELSE LET pushed == Append(pools[p][a], c)
                    kept == RetainFresh(pushed)
                IN  /\ pools' = [pools EXCEPT ![p][a] = kept]
                    /\ conns' = DropAll(SeqElems(pushed) \ SeqElems(kept))
    /\ Return(t, res[t], NoConn)
    /\ UNCHANGED <<cfgVars, wireVars, lockVars, closed, clientClosed, op, histVars>>

\* The section under the pools lock.
PutLock(t) ==
    /\ pc[t] = "put_lock"
    /\ LET p == pl[t]
           c == conn[t]
           a == conns[c].addr
       IN  IF a \notin DOMAIN pools[p]
           THEN /\ conns' = DropAll({c})
                /\ UNCHANGED pools
           ELSE IF AtCapacity(pools[p][a])
           THEN /\ conns' = DropAll({c})
                /\ UNCHANGED pools
           ELSE IF Elapsed(c) > IdleTimeout
           THEN /\ conns' = DropAll({c})
                /\ UNCHANGED pools
           ELSE LET pushed == Append(pools[p][a], c)
                    kept == RetainFresh(pushed)
                IN  /\ pools' = [pools EXCEPT ![p][a] = kept]
                    /\ conns' = DropAll(SeqElems(pushed) \ SeqElems(kept))
    /\ Return(t, res[t], NoConn)
    /\ UNCHANGED <<cfgVars, wireVars, lockVars, closed, clientClosed, op, histVars>>

(***************************************************************************)
(* ConnectionPool::add_addr                                                *)
(***************************************************************************)
AddChk(t) ==
    /\ pc[t] = "add_chk"
    /\ IF closed[pl[t]]
       THEN Return(t, res[t], conn[t])
       ELSE /\ pc' = [pc EXCEPT ![t] = "add_lock"]
            /\ UNCHANGED <<ret, pl, arg, conn, res>>
    /\ UNCHANGED <<cfgVars, wireVars, lockVars, poolVars, clientClosed, op, histVars>>

AddLock(t) ==
    /\ pc[t] = "add_lock"
    /\ pools' = [pools EXCEPT ![pl[t]] = EnsureKey(@, arg[t])]
    /\ Return(t, res[t], conn[t])
    /\ UNCHANGED <<cfgVars, wireVars, lockVars, closed, conns, clientClosed, op, histVars>>

(***************************************************************************)
(* ConnectionPool::close                                                   *)
(***************************************************************************)
\* Test and set of the closed flag, under its lock.
PoolCloseChk(t) ==
    /\ pc[t] = "close_chk"
    /\ IF closed[pl[t]]
       THEN /\ Return(t, res[t], conn[t])
            /\ UNCHANGED closed
       ELSE /\ closed' = [closed EXCEPT ![pl[t]] = TRUE]
            /\ pc' = [pc EXCEPT ![t] = "close_clear"]
            /\ UNCHANGED <<ret, pl, arg, conn, res>>
    /\ UNCHANGED <<cfgVars, wireVars, lockVars, pools, conns, clientClosed, op, histVars>>

\* pools.clear(): every key and list goes, every idle connection is dropped.
PoolCloseClear(t) ==
    /\ pc[t] = "close_clear"
    /\ conns' = DropAll(Idle(pl[t]))
    /\ pools' = [pools EXCEPT ![pl[t]] = <<>>]
    /\ Return(t, res[t], conn[t])
    /\ UNCHANGED <<cfgVars, wireVars, lockVars, closed, clientClosed, op, histVars>>

(***************************************************************************)
(* Time passes: every open connection has been unused one tick longer.     *)
(***************************************************************************)
Tick ==
    /\ \E c \in Open : conns[c].elapsed < MaxElapsed
    /\ conns' = [c \in ConnIds |->
                    IF conns[c].st = "open" /\ conns[c].elapsed < MaxElapsed
                    THEN [conns[c] EXCEPT !.elapsed = @ + 1]
                    ELSE conns[c]]
    /\ UNCHANGED <<cfgVars, wireVars, lockVars, closed, pools, clientClosed, callVars, op, histVars>>

(***************************************************************************)
(* SpecPool: tasks that call the pool directly.                            *)
(***************************************************************************)
PoolUnderTest == "tracker"

\* No request is being built.
NoRequest == [kind |-> "none"]

PoolArgs == {NoAddr, "s1"}
\* op: the public call (kind), its arguments (meta: non-empty metadata was
\* passed; valid: split_file_id accepts the file ID) and its progress (attempt:
\* the retry loop's index, kept after the return; inner: the set_metadata
\* inside an upload runs; status, len: the status byte of the response header
\* in hand and the body length it declares; nap: the seconds of the sleep in
\* progress; sent: history, the upload requests of this call that were
\* written to a storage server in full; meta_out: history, what the
\* set_metadata inside the last upload came back with).
NoOp == [kind |-> "none", meta |-> FALSE, valid |-> TRUE, attempt |-> 0,
         inner |-> FALSE, status |-> 0, len |-> "zero", nap |-> 0, sent |-> 0, meta_out |-> "none"]

Call(t, entry, p, a, back) ==
    /\ pc' = [pc EXCEPT ![t] = entry]
    /\ ret' = [ret EXCEPT ![t] = back]
    /\ pl' = [pl EXCEPT ![t] = p]
    /\ arg' = [arg EXCEPT ![t] = a]

PCallGet(t) ==
    /\ pc[t] = "idle" /\ conn[t] = NoConn
    /\ \E a \in PoolArgs : Call(t, "get_chk", PoolUnderTest, a, "idle")
    /\ res' = [res EXCEPT ![t] = "none"]
    /\ UNCHANGED <<cfgVars, wireVars, lockVars, poolVars, clientClosed, conn, op, histVars>>

PCallPut(t) ==
    /\ pc[t] = "idle" /\ conn[t] # NoConn
    /\ Call(t, "put_chk", PoolUnderTest, NoAddr, "idle")
    /\ res' = [res EXCEPT ![t] = "none"]
    /\ owed' = [owed EXCEPT ![t] = @ - 1]
    /\ UNCHANGED <<cfgVars, wireVars, lockVars, poolVars, clientClosed, conn, op>>

PCallAdd(t) ==
    /\ pc[t] = "idle" /\ conn[t] = NoConn
    /\ \E a \in PoolArgs \ {NoAddr} : Call(t, "add_chk", PoolUnderTest, a, "idle")
    /\ res' = [res EXCEPT ![t] = "none"]
    /\ UNCHANGED <<cfgVars, wireVars, lockVars, poolVars, clientClosed, conn, op, histVars>>

PCallClose(t) ==
    /\ pc[t] = "idle" /\ conn[t] = NoConn
    /\ Call(t, "close_chk", PoolUnderTest, NoAddr, "idle")
    /\ res' = [res EXCEPT ![t] = "none"]
    /\ UNCHANGED <<cfgVars, wireVars, lockVars, poolVars, clientClosed, conn, op, histVars>>

\* The holder uses the connection: a send or receive_full that succeeds.
PUse(t) ==
    /\ pc[t] = "idle" /\ conn[t] # NoConn
    /\ conns[conn[t]].elapsed > 0
    /\ conns' = [conns EXCEPT ![conn[t]].elapsed = 0]
    /\ UNCHANGED <<cfgVars, wireVars, lockVars, closed, pools, clientClosed, callVars, op, histVars>>

\* The holder drops the connection.
PDrop(t) ==
    /\ pc[t] = "idle" /\ conn[t] # NoConn
    /\ conns' = DropAll({conn[t]})
    /\ conn' = [conn EXCEPT ![t] = NoConn]
    /\ res' = [res EXCEPT ![t] = "none"]
    /\ owed' = [owed EXCEPT ![t] = @ - 1]
    /\ UNCHANGED <<cfgVars, wireVars, lockVars, closed, pools, clientClosed, pc, ret, pl, arg, op>>

InitCommon ==
    /\ closed = [p \in PoolIds |-> FALSE]
    /\ pools = [p \in PoolIds |-> PoolNew(PoolAddrs(p))]
    /\ conns = [c \in ConnIds |-> NoConnection]
    /\ clientClosed = FALSE
    /\ pc = [t \in AllTasks |-> "idle"]
    /\ ret = [t \in AllTasks |-> "idle"]
    /\ pl = [t \in AllTasks |-> PoolUnderTest]
    /\ arg = [t \in AllTasks |-> NoAddr]
    /\ conn = [t \in AllTasks |-> NoConn]
    /\ res = [t \in AllTasks |-> "none"]
    /\ op = [t \in AllTasks |-> NoOp]
    /\ owed = [t \in AllTasks |-> 0]
    /\ req = NoRequest
    /\ written = <<>>
    /\ held = [t \in AllTasks |-> {}]

InitPool ==
    /\ max_conns \in 0..MaxMaxConns
    /\ retry_count = 1
    /\ InitCommon

NextPool ==
    \/ \E t \in PoolTasks : PCallGet(t)
    \/ \E t \in PoolTasks : PCallPut(t)
    \/ \E t \in PoolTasks : PCallAdd(t)
    \/ \E t \in PoolTasks : PCallClose(t)
    \/ \E t \in PoolTasks : PUse(t)
    \/ \E t \in PoolTasks : PDrop(t)
    \/ \E t \in PoolTasks : GetChk(t)
    \/ \E t \in PoolTasks : GetLock(t)
    \/ \E t \in PoolTasks : GetConnect(t)
    \/ \E t \in PoolTasks : PutChk(t)
    \/ \E t \in PoolTasks : PutLock(t)
    \/ \E t \in PoolTasks : AddChk(t)
    \/ \E t \in PoolTasks : AddLock(t)
    \/ \E t \in PoolTasks : PoolCloseChk(t)
    \/ \E t \in PoolTasks : PoolCloseClear(t)
    \/ Tick

SpecPool == InitPool /\ [][NextPool]_vars

(***************************************************************************)
(* SpecLifo: the same tasks on a pool whose free-lists take as many        *)
(* connections as can be open.                                             *)
(***************************************************************************)
InitLifo ==
    /\ max_conns = MaxConns
    /\ retry_count = 1
    /\ InitCommon

SpecLifo == InitLifo /\ [][NextPool]_vars

(***************************************************************************)
(* SpecLock: the pool calls with their two mutexes.  `closed` and `pools`  *)
(* are tokio Mutexes: lock().await returns a guard when nobody has one,    *)
(* and the mutex is free again when the guard is dropped.  Each call is    *)
(* cut where it waits for a mutex and where it lets one go.                *)
(***************************************************************************)
NumLockTasks == 2           \* tasks of SpecLock

LockTasks == 1..NumLockTasks

ClosedMutex(p) == <<p, "closed">>
PoolsMutex(p) == <<p, "pools">>
HeldBy(m) == {u \in AllTasks : m \in held[u]}

\* `self.closed.lock().await` / `self.pools.lock().await` returns the guard.
Lock(t, m) == HeldBy(m) = {} /\ held' = [held EXCEPT ![t] = @ \cup {m}]

\* The guard goes out of scope or is dropped.
Unlock(t, m) == held' = [held EXCEPT ![t] = @ \ {m}]

\* The position inside the section that a wait for a mutex leads to.
Inside(p) ==
    CASE p = "get_chk" -> "get_chk_in"
      [] p = "put_chk" -> "put_chk_in"
      [] p = "add_chk" -> "add_chk_in"
      [] p = "close_chk" -> "close_chk_in"
      [] p = "get_lock" -> "get_lock_in"
      [] p = "put_lock" -> "put_lock_in"
      [] p = "add_lock" -> "add_lock_in"
      [] p = "close_clear" -> "close_clear_in"

WaitsClosed == {"get_chk", "put_chk", "add_chk", "close_chk"}
WaitsPools == {"get_lock", "put_lock", "add_lock", "close_clear"}

\* `let closed = self.closed.lock().await` of get, put, add_addr and close
LockClosed(t) ==
    /\ pc[t] \in WaitsClosed
    /\ Lock(t, ClosedMutex(pl[t]))
    /\ pc' = [pc EXCEPT ![t] = Inside(@)]
    /\ UNCHANGED <<cfgVars, wireVars, poolVars, clientClosed, ret, pl, arg, conn,
                   res, op, histVars>>

\* `let mut pools = self.pools.lock().await` of get, put, add_addr and close
LockPools(t) ==
    /\ pc[t] \in WaitsPools
    /\ Lock(t, PoolsMutex(pl[t]))
    /\ pc' = [pc EXCEPT ![t] = Inside(@)]
    /\ UNCHANGED <<cfgVars, wireVars, poolVars, clientClosed, ret, pl, arg, conn,
                   res, op, histVars>>

\* get: the block of the closed guard, then the choice of the address.
GetChkIn(t) ==
    /\ pc[t] = "get_chk_in"
    /\ Unlock(t, ClosedMutex(pl[t]))
    /\ IF closed[pl[t]]
       THEN Return(t, "ClientClosed", NoConn)
       ELSE IF arg[t] = NoAddr /\ PoolAddrs(pl[t]) = <<>>
       THEN Return(t, "InvalidArgument", NoConn)
       ELSE /\ pc' = [pc EXCEPT ![t] = "get_lock"]
            /\ arg' = [arg EXCEPT ![t] = IF @ = NoAddr THEN PoolAddrs(pl[t])[1] ELSE @]
            /\ UNCHANGED <<ret, pl, conn, res>>
    /\ UNCHANGED <<cfgVars, wireVars, poolVars, clientClosed, op, histVars>>

\* A pools guard of get that lives until the function returns.
GuardScope_Function(t, got) ==
    IF got # NoConn THEN Unlock(t, PoolsMutex(pl[t])) ELSE UNCHANGED held

\* The pools guard of get lives in a block that ends before
\* create_connection is called.
GuardScope(t, got) == Unlock(t, PoolsMutex(pl[t]))

\* get: the block of the pools guard.
GetLockIn(t) ==
    /\ pc[t] = "get_lock_in"
    /\ LET p == pl[t]
           a == arg[t]
           m == EnsureKey(pools[p], a)
           r == TakeFresh(m[a])
       IN  /\ pools' = [pools EXCEPT ![p] = [m EXCEPT ![a] = r.rest]]
           /\ conns' = DropAll(r.stale)
           /\ GuardScope(t, r.got)
           /\ IF r.got # NoConn
              THEN /\ Return(t, "Ok", r.got)
                   /\ owed' = [owed EXCEPT ![t] = @ + 1]
              ELSE /\ pc' = [pc EXCEPT ![t] = "get_conn"]
                   /\ UNCHANGED <<ret, pl, arg, conn, res, histVars>>
    /\ UNCHANGED <<cfgVars, wireVars, closed, clientClosed, op>>

\* put: the block of the closed guard.
PutChkIn(t) ==
    /\ pc[t] = "put_chk_in"
    /\ Unlock(t, ClosedMutex(pl[t]))
    /\ IF closed[pl[t]]
       THEN /\ conns' = DropAll({conn[t]})
            /\ Return(t, res[t], NoConn)
       ELSE /\ pc' = [pc EXCEPT ![t] = "put_lock"]
            /\ UNCHANGED <<conns, ret, pl, arg, conn, res>>
    /\ UNCHANGED <<cfgVars, wireVars, closed, pools, clientClosed, op, histVars>>

\* put: under the pools guard, to the end of the function.
PutLockIn(t) ==
    /\ pc[t] = "put_lock_in"
    /\ Unlock(t, PoolsMutex(pl[t]))
    /\ LET p == pl[t]
           c == conn[t]
           a == conns[c].addr
       IN  IF a \notin DOMAIN pools[p]
           THEN /\ conns' = DropAll({c})
                /\ UNCHANGED pools
           ELSE IF AtCapacity(pools[p][a])
           THEN /\ conns' = DropAll({c})
                /\ UNCHANGED pools
           ELSE IF Elapsed(c) > IdleTimeout
           THEN /\ conns' = DropAll({c})
                /\ UNCHANGED pools
           ELSE LET pushed == Append(pools[p][a], c)
                    kept == RetainFresh(pushed)
                IN  /\ pools' = [pools EXCEPT ![p][a] = kept]
                    /\ conns' = DropAll(SeqElems(pushed) \ SeqElems(kept))
    /\ Return(t, res[t], NoConn)
    /\ UNCHANGED <<cfgVars, wireVars, closed, clientClosed, op, histVars>>

\* add_addr: the closed test, then drop(closed).
AddChkIn(t) ==
    /\ pc[t] = "add_chk_in"
    /\ Unlock(t, ClosedMutex(pl[t]))
    /\ IF closed[pl[t]]
       THEN Return(t, res[t], conn[t])
       ELSE /\ pc' = [pc EXCEPT ![t] = "add_lock"]
            /\ UNCHANGED <<ret, pl, arg, conn, res>>
    /\ UNCHANGED <<cfgVars, wireVars, poolVars, clientClosed, op, histVars>>

\* add_addr: under the pools guard, to the end of the function.
AddLockIn(t) ==
    /\ pc[t] = "add_lock_in"
    /\ Unlock(t, PoolsMutex(pl[t]))
    /\ pools' = [pools EXCEPT ![pl[t]] = EnsureKey(@, arg[t])]
    /\ Return(t, res[t], conn[t])
    /\ UNCHANGED <<cfgVars, wireVars, closed, conns, clientClosed, op, histVars>>

\* close: the test and set of the flag, then drop(closed).
PoolCloseChkIn(t) ==
    /\ pc[t] = "close_chk_in"
    /\ Unlock(t, ClosedMutex(pl[t]))
    /\ IF closed[pl[t]]
       THEN /\ Return(t, res[t], conn[t])
            /\ UNCHANGED closed
       ELSE /\ closed' = [closed EXCEPT ![pl[t]] = TRUE]
            /\ pc' = [pc EXCEPT ![t] = "close_clear"]
            /\ UNCHANGED <<ret, pl, arg, conn, res>>
    /\ UNCHANGED <<cfgVars, wireVars, pools, conns, clientClosed, op, histVars>>

\* close: pools.clear() under the pools guard, to the end of the function.
PoolCloseClearIn(t) ==
    /\ pc[t] = "close_clear_in"
    /\ Unlock(t, PoolsMutex(pl[t]))
    /\ conns' = DropAll(Idle(pl[t]))
    /\ pools' = [pools EXCEPT ![pl[t]] = <<>>]
    /\ Return(t, res[t], conn[t])
    /\ UNCHANGED <<cfgVars, wireVars, closed, clientClosed, op, histVars>>

\* The step of task t inside a pool call, if it has one.
LockStep(t) ==
    \/ LockClosed(t)
    \/ LockPools(t)
    \/ GetChkIn(t)
    \/ GetLockIn(t)
    \/ GetConnect(t)
    \/ PutChkIn(t)
    \/ PutLockIn(t)
    \/ AddChkIn(t)
    \/ AddLockIn(t)
    \/ PoolCloseChkIn(t)
    \/ PoolCloseClearIn(t)

InitLock ==
    /\ max_conns = MaxMaxConns
    /\ retry_count = 1
    /\ InitCommon

NextLock ==
    \/ \E t \in LockTasks : PCallGet(t)
    \/ \E t \in LockTasks : PCallPut(t)
    \/ \E t \in LockTasks : PCallAdd(t)
    \/ \E t \in LockTasks : PCallClose(t)
    \/ \E t \in LockTasks : LockClosed(t)
    \/ \E t \in LockTasks : LockPools(t)
    \/ \E t \in LockTasks : GetChkIn(t)
    \/ \E t \in LockTasks : GetLockIn(t)
    \/ \E t \in LockTasks : GetConnect(t)
    \/ \E t \in LockTasks : PutChkIn(t)
    \/ \E t \in LockTasks : PutLockIn(t)
    \/ \E t \in LockTasks : AddChkIn(t)
    \/ \E t \in LockTasks : AddLockIn(t)
    \/ \E t \in LockTasks : PoolCloseChkIn(t)
    \/ \E t \in LockTasks : PoolCloseClearIn(t)
    \/ Tick

SpecLock == InitLock /\ [][NextLock]_vars

(***************************************************************************)
(* Operations and Client: the public operations.                           *)
(***************************************************************************)
PublicOps == {"upload_buffer", "upload_appender_buffer", "download_file",
              "download_file_range", "delete_file", "set_metadata",
              "get_metadata", "get_file_info"}

\* The Operations method a public operation runs (client.rs 116-192).
OpKind(f) ==
    CASE f \in {"upload_buffer", "upload_appender_buffer"} -> "upload"
      [] f \in {"download_file", "download_file_range"} -> "download"
      [] f = "delete_file" -> "delete"
      [] OTHER -> f

\* The operations that run in the retry loop.
RetryKinds == {"upload", "download", "delete"}

\* The exchange the task is in: an upload's set_metadata runs as set_metadata,
\* file_exists runs get_file_info.
Running(t) ==
    IF op[t].inner THEN "set_metadata"
    ELSE IF op[t].kind = "file_exists" THEN "get_file_info"
    ELSE op[t].kind

\* A file_exists that hands on what check_closed and get_file_info return.
Outcome_Raw(kind, r) == r

\* What the public operation makes of the result r: file_exists reduces it
\* with is_ok().
Outcome(kind, r) ==
    IF kind = "file_exists" THEN (IF r = "Ok" THEN "true" ELSE "false") ELSE r

\* What a server may answer: the status byte and the declared body length
\* ("short": too few bytes for the parser, "full": enough).
Statuses == {0, 2, 5}
Lens == {"zero", "short", "full"}

\* A status byte is a u8.
U8Max == 255
StatusBytes == 0..U8Max

\* Option::None
None == [err |-> "Ok"]

\* A mapping with the errno of Linux for EEXIST.
StatusError_Errno(status) ==
    CASE status = 0 -> None
      [] status = 2 -> [err |-> "FileNotFound"]
      [] status = 17 -> [err |-> "FileAlreadyExists"]
      [] status = 22 -> [err |-> "InvalidArgument"]
      [] status = 28 -> [err |-> "InsufficientSpace"]
      [] OTHER -> [err |-> "Protocol", code |-> status]

\* map_status_to_error: None, or the error with the fields the status decides.
StatusError(status) ==
    CASE status = 0 -> None
      [] status = 2 -> [err |-> "FileNotFound"]
      [] status = 6 -> [err |-> "FileAlreadyExists"]
      [] status = 22 -> [err |-> "InvalidArgument"]
      [] status = 28 -> [err |-> "InsufficientSpace"]
      [] OTHER -> [err |-> "Protocol", code |-> status]

\* The kind of the error map_status_to_error gives, "Ok" for None.
MapStatusToError(status) == StatusError(status).err

\* A check_closed that lets every call through.
CheckClosed_Open == FALSE

\* Client::check_closed
CheckClosed == clientClosed

\* The public call returns r.
ReturnOp(t, r) ==
    /\ pc' = [pc EXCEPT ![t] = "idle"]
    /\ res' = [res EXCEPT ![t] = Outcome(op[t].kind, r)]
    /\ op' = [op EXCEPT ![t] = [NoOp EXCEPT !.kind = op[t].kind,
                                           !.attempt = op[t].attempt]]
    /\ ret' = [ret EXCEPT ![t] = "idle"]
    /\ pl' = [pl EXCEPT ![t] = PoolUnderTest]
    /\ arg' = [arg EXCEPT ![t] = NoAddr]

\* upload_buffer_internal after `let _ = self.set_metadata(..).await`, which
\* came back with r: Ok(file_id).
ReturnInner(t, r) ==
    /\ pc' = [pc EXCEPT ![t] = "idle"]
    /\ res' = [res EXCEPT ![t] = "Ok"]
    /\ op' = [op EXCEPT ![t] = [NoOp EXCEPT !.kind = op[t].kind,
                                           !.attempt = op[t].attempt,
                                           !.meta_out = r]]
    /\ ret' = [ret EXCEPT ![t] = "idle"]
    /\ pl' = [pl EXCEPT ![t] = PoolUnderTest]
    /\ arg' = [arg EXCEPT ![t] = NoAddr]

\* A backoff of one second after every attempt.
Backoff_Constant(attempt) == 1

\* sleep(Duration::from_secs((attempt + 1) as u64))
Backoff(attempt) == attempt + 1

\* The errors that another attempt cannot cure.
PermanentErrors == {"FileNotFound", "FileAlreadyExists", "InvalidArgument",
                    "InvalidFileId", "InvalidResponse", "ClientClosed"}

\* A retry loop that returns a permanent error at once.
AttemptEnd_FailFast(t, r) ==
    IF op[t].inner
    THEN ReturnInner(t, r)
    ELSE IF /\ op[t].kind \in RetryKinds
            /\ r \notin PermanentErrors \cup {"Ok"}
            /\ op[t].attempt # retry_count - 1
    THEN /\ pc' = [pc EXCEPT ![t] = "sleep"]
         /\ res' = [res EXCEPT ![t] = r]
         /\ ret' = [ret EXCEPT ![t] = "idle"]
         /\ pl' = [pl EXCEPT ![t] = PoolUnderTest]
         /\ arg' = [arg EXCEPT ![t] = NoAddr]
         /\ op' = [op EXCEPT ![t].len = "zero", ![t].status = 0,
                              ![t].nap = Backoff(op[t].attempt)]
    ELSE ReturnOp(t, r)

\* A retry loop whose last-attempt test is off by one.
AttemptEnd_OneMore(t, r) ==
    IF op[t].inner
    THEN ReturnInner(t, r)
    ELSE IF op[t].kind \in RetryKinds /\ r # "Ok" /\ op[t].attempt # retry_count
    THEN /\ pc' = [pc EXCEPT ![t] = "sleep"]
         /\ res' = [res EXCEPT ![t] = r]
         /\ ret' = [ret EXCEPT ![t] = "idle"]
         /\ pl' = [pl EXCEPT ![t] = PoolUnderTest]
         /\ arg' = [arg EXCEPT ![t] = NoAddr]
         /\ op' = [op EXCEPT ![t].len = "zero", ![t].status = 0,
                              ![t].nap = Backoff(op[t].attempt)]
    ELSE ReturnOp(t, r)

\* An upload whose set_metadata is awaited with `?`.
AttemptEnd_Propagate(t, r) ==
    IF op[t].inner
    THEN /\ ReturnOp(t, r)
    ELSE IF op[t].kind \in RetryKinds /\ r # "Ok" /\ op[t].attempt # retry_count - 1
    THEN /\ pc' = [pc EXCEPT ![t] = "sleep"]
         /\ res' = [res EXCEPT ![t] = r]
         /\ ret' = [ret EXCEPT ![t] = "idle"]
         /\ pl' = [pl EXCEPT ![t] = PoolUnderTest]
         /\ arg' = [arg EXCEPT ![t] = NoAddr]
         /\ op' = [op EXCEPT ![t].len = "zero", ![t].status = 0,
                              ![t].nap = Backoff(op[t].attempt)]
    ELSE ReturnOp(t, r)

\* A retry loop around every operation.
AttemptEnd_RetryAll(t, r) ==
    IF op[t].inner
    THEN ReturnInner(t, r)
    ELSE IF r # "Ok" /\ op[t].attempt # retry_count - 1
    THEN /\ pc' = [pc EXCEPT ![t] = "sleep"]
         /\ res' = [res EXCEPT ![t] = r]
         /\ ret' = [ret EXCEPT ![t] = "idle"]
         /\ pl' = [pl EXCEPT ![t] = PoolUnderTest]
         /\ arg' = [arg EXCEPT ![t] = NoAddr]
         /\ op' = [op EXCEPT ![t].len = "zero", ![t].status = 0,
                              ![t].nap = Backoff(op[t].attempt)]
    ELSE ReturnOp(t, r)

\* An attempt ends with r: the retry loop of upload_buffer, download_file and
\* delete_file returns or sleeps; the other operations return r.  The result of
\* the set_metadata inside an upload is discarded and the upload returns Ok.
AttemptEnd(t, r) ==
    IF op[t].inner
    THEN ReturnInner(t, r)
    ELSE IF op[t].kind \in RetryKinds /\ r # "Ok" /\ op[t].attempt # retry_count - 1
    THEN /\ pc' = [pc EXCEPT ![t] = "sleep"]
         /\ res' = [res EXCEPT ![t] = r]
         /\ ret' = [ret EXCEPT ![t] = "idle"]
         /\ pl' = [pl EXCEPT ![t] = PoolUnderTest]
         /\ arg' = [arg EXCEPT ![t] = NoAddr]
         /\ op' = [op EXCEPT ![t].len = "zero", ![t].status = 0,
                              ![t].nap = Backoff(op[t].attempt)]
    ELSE ReturnOp(t, r)

\* A public operation is called: check_closed, then into Operations.
OpStartOf(t, fs) ==
    /\ pc[t] = "idle"
    /\ \E f \in fs, m \in BOOLEAN, v \in BOOLEAN :
          /\ m => OpKind(f) = "upload"
          /\ ~v => OpKind(f) # "upload"
          /\ IF CheckClosed
             THEN /\ res' = [res EXCEPT ![t] = Outcome(OpKind(f), "ClientClosed")]
                  /\ op' = [op EXCEPT ![t] = [NoOp EXCEPT !.kind = OpKind(f)]]
                  /\ UNCHANGED pc
             ELSE /\ pc' = [pc EXCEPT ![t] = "attempt"]
                  /\ res' = [res EXCEPT ![t] = "none"]
                  /\ op' = [op EXCEPT ![t] = [NoOp EXCEPT !.kind = OpKind(f),
                                                         !.meta = m, !.valid = v]]
    /\ UNCHANGED <<cfgVars, wireVars, lockVars, poolVars, clientClosed, ret, pl, arg, conn, histVars>>

\* One of the public operations that return a Result is called.
OpStart(t) == OpStartOf(t, PublicOps)

\* file_exists is called.
ExistsStart(t) == OpStartOf(t, {"file_exists"})

\* A retry that turns to the second tracker after a failed attempt.
AttemptStart_Failover(t) ==
    /\ pc[t] = "attempt"
    /\ IF ~op[t].inner /\ op[t].kind \in RetryKinds /\ op[t].attempt >= retry_count
       THEN ReturnOp(t, "InvalidArgument")
       ELSE IF ~op[t].valid
       THEN AttemptEnd(t, "InvalidFileId")
       ELSE /\ Call(t, "get_chk", "tracker",
                    IF op[t].attempt > 0 THEN TrackerAddrs[2] ELSE NoAddr, "send")
            /\ UNCHANGED <<res, op>>
    /\ UNCHANGED <<cfgVars, wireVars, lockVars, poolVars, clientClosed, conn, histVars>>

\* A retry loop that tests its bound after the first attempt only.
AttemptStart_AtLeastOnce(t) ==
    /\ pc[t] = "attempt"
    /\ IF /\ ~op[t].inner /\ op[t].kind \in RetryKinds
          /\ op[t].attempt >= retry_count /\ op[t].attempt > 0
       THEN ReturnOp(t, "InvalidArgument")
       ELSE IF ~op[t].valid
       THEN AttemptEnd(t, "InvalidFileId")
       ELSE /\ Call(t, "get_chk", "tracker", NoAddr, "send")
            /\ UNCHANGED <<res, op>>
    /\ UNCHANGED <<cfgVars, wireVars, lockVars, poolVars, clientClosed, conn, histVars>>

\* The next attempt begins: the loop test, split_file_id, the call of
\* tracker_pool.get(None).
AttemptStart(t) ==
    /\ pc[t] = "attempt"
    /\ IF ~op[t].inner /\ op[t].kind \in RetryKinds /\ op[t].attempt >= retry_count
       THEN ReturnOp(t, "InvalidArgument")
       ELSE IF ~op[t].valid
       THEN AttemptEnd(t, "InvalidFileId")
       ELSE /\ Call(t, "get_chk", "tracker", NoAddr, "send")
            /\ UNCHANGED <<res, op>>
    /\ UNCHANGED <<cfgVars, wireVars, lockVars, poolVars, clientClosed, conn, histVars>>

\* A loop that does not count its attempts.
Wake_NoCount(t) ==
    /\ pc[t] = "sleep"
    /\ pc' = [pc EXCEPT ![t] = "attempt"]
    /\ op' = [op EXCEPT ![t].nap = 0]
    /\ UNCHANGED <<cfgVars, wireVars, lockVars, poolVars, clientClosed, ret, pl, arg, conn, res, histVars>>

\* sleep(attempt + 1) is over.
Wake(t) ==
    /\ pc[t] = "sleep"
    /\ pc' = [pc EXCEPT ![t] = "attempt"]
    /\ op' = [op EXCEPT ![t].attempt = @ + 1, ![t].nap = 0]
    /\ UNCHANGED <<cfgVars, wireVars, lockVars, poolVars, clientClosed, ret, pl, arg, conn, res, histVars>>

\* self.<pool>.put(conn).await, then the attempt goes on with `out`.
CallPut(t, out) ==
    /\ pc' = [pc EXCEPT ![t] = "put_chk"]
    /\ ret' = [ret EXCEPT ![t] = "released"]
    /\ res' = [res EXCEPT ![t] = out]
    /\ owed' = [owed EXCEPT ![t] = @ - 1]
    /\ UNCHANGED <<pl, conn>>

\* A failed send or receive_full whose connection goes back to the pool.
Abandon_Put(t, e) ==
    /\ CallPut(t, e)
    /\ UNCHANGED <<conns, arg, op>>

\* A failed send or receive_full whose connection stays with the task.
Abandon_Keep(t, e) ==
    /\ AttemptEnd(t, e)
    /\ UNCHANGED <<conns, conn, owed>>

\* conn.send(..).await? / conn.receive_full(..).await? fails with e: the
\* function returns and its local conn is dropped.
Abandon(t, e) ==
    /\ conns' = DropAll({conn[t]})
    /\ conn' = [conn EXCEPT ![t] = NoConn]
    /\ owed' = [owed EXCEPT ![t] = @ - 1]
    /\ AttemptEnd(t, e)

IoErrors == {"Network", "NetworkTimeout"}

\* Connection::send / receive_full succeed: last_used = Instant::now().
Used(c, w) == [conns EXCEPT ![c].elapsed = 0, ![c].wire = w]

\* `let mut conn = pool.get(..).await?`, then the request is sent: header and
\* body, each by Connection::send.
Send(t) ==
    /\ pc[t] = "send"
    /\ IF res[t] # "Ok"
       THEN /\ AttemptEnd(t, res[t])
            /\ UNCHANGED <<conns, conn, owed>>
       ELSE \/ /\ conns' = Used(conn[t], IF conns[conn[t]].wire = "clean"
                                         THEN "resp" ELSE "dirty")
               /\ pc' = [pc EXCEPT ![t] = "recv_hdr"]
               /\ op' = [op EXCEPT ![t].sent =
                             IF pl[t] = "storage" /\ Running(t) = "upload"
                             THEN @ + 1 ELSE @]
               /\ UNCHANGED <<ret, pl, arg, conn, res, owed>>
            \/ \E e \in IoErrors : Abandon(t, e)
    /\ UNCHANGED <<cfgVars, wireVars, lockVars, closed, pools, clientClosed>>

\* A response header whose status byte is looked at after the body.
OnHeader_BodyFirst(kind, p, status, ln) ==
    IF ln # "zero"
    THEN [act |-> "body", out |-> "Ok"]
    ELSE [act |-> "put", out |-> MapStatusToError(status)]

\* What the code does with a response header (status, declared length ln):
\* put the connection back and go on with `out`, or read the body.
OnHeader(kind, p, status, ln) ==
    IF status # 0
    THEN [act |-> "put", out |-> MapStatusToError(status)]
    ELSE IF p = "tracker"
    THEN IF kind = "upload" /\ ln = "zero"
         THEN [act |-> "put", out |-> "NoStorageServer"]
         ELSE [act |-> "body", out |-> "Ok"]
    ELSE CASE kind = "upload" ->
                 IF ln = "zero" THEN [act |-> "put", out |-> "InvalidResponse"]
                                ELSE [act |-> "body", out |-> "Ok"]
           [] kind \in {"download", "get_metadata"} ->
                 IF ln = "zero" THEN [act |-> "put", out |-> "Ok"]
                                ELSE [act |-> "body", out |-> "Ok"]
           [] kind \in {"delete", "set_metadata"} -> [act |-> "put", out |-> "Ok"]
           [] OTHER -> [act |-> "body", out |-> "Ok"]

\* The result of parsing a response body of the declared length ln.
OnBody(kind, p, ln) ==
    IF p = "tracker" \/ kind \in {"upload", "get_file_info"}
    THEN IF ln = "full" THEN "Ok" ELSE "InvalidResponse"
    ELSE "Ok"

\* The wire after the response header was read.
AfterHeader(w, ln) ==
    IF w = "resp" THEN (IF ln = "zero" THEN "clean" ELSE "body") ELSE w

\* The wire after the declared body was read.
AfterBody(w) == IF w = "body" THEN "clean" ELSE w

\* receive_full(FDFS_PROTO_HEADER_LEN), decode_header, the status and length
\* tests.
RecvHeader(t) ==
    /\ pc[t] = "recv_hdr"
    /\ \/ \E status \in Statuses, ln \in Lens :
            LET d == OnHeader(Running(t), pl[t], status, ln)
            IN  /\ conns' = Used(conn[t], AfterHeader(conns[conn[t]].wire, ln))
                /\ IF d.act = "put"
                   THEN /\ CallPut(t, d.out)
                        /\ op' = [op EXCEPT ![t].status = status]
                   ELSE /\ pc' = [pc EXCEPT ![t] = "recv_body"]
                        /\ op' = [op EXCEPT ![t].status = status, ![t].len = ln]
                        /\ UNCHANGED <<ret, pl, conn, res, owed>>
                /\ UNCHANGED arg
       \/ \E e \in IoErrors : Abandon(t, e)
    /\ UNCHANGED <<cfgVars, wireVars, lockVars, closed, pools, clientClosed>>

\* A tracker exchange that keeps its connection while the operation goes on
\* to the storage server.
RecvBody_KeepTracker(t) ==
    /\ pc[t] = "recv_body"
    /\ \/ LET out == OnBody(Running(t), pl[t], op[t].len)
          IN  /\ conns' = Used(conn[t], AfterBody(conns[conn[t]].wire))
              /\ op' = [op EXCEPT ![t].len = "zero"]
              /\ IF pl[t] = "tracker" /\ out = "Ok"
                 THEN /\ \E a \in StorageAddrs : arg' = [arg EXCEPT ![t] = a]
                      /\ pc' = [pc EXCEPT ![t] = "released"]
                      /\ res' = [res EXCEPT ![t] = out]
                      /\ UNCHANGED <<ret, pl, conn, owed>>
                 ELSE /\ CallPut(t, out)
                      /\ UNCHANGED arg
       \/ /\ op[t].len # "zero"
          /\ \E e \in IoErrors : Abandon(t, e)
    /\ UNCHANGED <<cfgVars, wireVars, lockVars, closed, pools, clientClosed>>

\* receive_full(resp_header.length), the parse of the body, put.  A tracker's
\* body names the storage server.
RecvBody(t) ==
    /\ pc[t] = "recv_body"
    /\ \/ LET out == OnBody(Running(t), pl[t], op[t].len)
          IN  /\ conns' = Used(conn[t], AfterBody(conns[conn[t]].wire))
              /\ CallPut(t, out)
              /\ op' = [op EXCEPT ![t].len = "zero"]
              /\ IF pl[t] = "tracker" /\ out = "Ok"
                 THEN \E a \in StorageAddrs : arg' = [arg EXCEPT ![t] = a]
                 ELSE UNCHANGED arg
       \/ /\ op[t].len # "zero"
          /\ \E e \in IoErrors : Abandon(t, e)
    /\ UNCHANGED <<cfgVars, wireVars, lockVars, closed, pools, clientClosed>>

\* An operation that goes on to a storage server whatever the tracker
\* exchange came to.
Released_Eager(t) ==
    /\ pc[t] = "released"
    /\ IF pl[t] = "tracker"
       THEN /\ \E a \in StorageAddrs :
                  Call(t, "add_chk", "storage", IF arg[t] = NoAddr THEN a ELSE arg[t],
                       "s_get")
            /\ res' = [res EXCEPT ![t] = "Ok"]
            /\ UNCHANGED op
       ELSE AttemptEnd(t, res[t])
    /\ UNCHANGED <<cfgVars, wireVars, lockVars, poolVars, clientClosed, conn, histVars>>

\* An operation that asks the storage pool for a connection without
\* registering the address first.
Released_NoAdd(t) ==
    /\ pc[t] = "released"
    /\ IF res[t] # "Ok"
       THEN AttemptEnd(t, res[t])
       ELSE IF pl[t] = "tracker"
       THEN /\ Call(t, "get_chk", "storage", arg[t], "send")
            /\ UNCHANGED <<res, op>>
       ELSE AttemptEnd(t, "Ok")
    /\ UNCHANGED <<cfgVars, wireVars, lockVars, poolVars, clientClosed, conn, histVars>>

\* put has returned: the error is returned, or the tracker's answer leads to
\* storage_pool.add_addr, or the storage exchange is over.  After an upload
\* with metadata set_metadata is called with the file ID made of the storage
\* server's answer, which split_file_id accepts or not.
Released(t) ==
    /\ pc[t] = "released"
    /\ IF res[t] # "Ok"
       THEN AttemptEnd(t, res[t])
       ELSE IF pl[t] = "tracker"
       THEN /\ Call(t, "add_chk", "storage", arg[t], "s_get")
            /\ UNCHANGED <<res, op>>
       ELSE IF op[t].kind = "upload" /\ op[t].meta /\ ~op[t].inner
       THEN /\ pc' = [pc EXCEPT ![t] = "attempt"]
            /\ \E v \in BOOLEAN : op' = [op EXCEPT ![t].inner = TRUE, ![t].valid = v]
            /\ pl' = [pl EXCEPT ![t] = PoolUnderTest]
            /\ arg' = [arg EXCEPT ![t] = NoAddr]
            /\ UNCHANGED <<ret, res>>
       ELSE AttemptEnd(t, "Ok")
    /\ UNCHANGED <<cfgVars, wireVars, lockVars, poolVars, clientClosed, conn, histVars>>

\* self.storage_pool.get(Some(&storage_addr))
StorageGet(t) ==
    /\ pc[t] = "s_get"
    /\ Call(t, "get_chk", "storage", arg[t], "send")
    /\ UNCHANGED <<cfgVars, wireVars, lockVars, poolVars, clientClosed, conn, res, op, histVars>>

\* A Client::close that reopens a closed client.
ClientClose_Toggle(t) ==
    /\ pc[t] = "idle"
    /\ op' = [op EXCEPT ![t] = [NoOp EXCEPT !.kind = "close"]]
    /\ IF clientClosed
       THEN /\ clientClosed' = FALSE
            /\ res' = [res EXCEPT ![t] = "Done"]
            /\ UNCHANGED <<pc, ret, pl, arg>>
       ELSE /\ clientClosed' = TRUE
            /\ res' = [res EXCEPT ![t] = "none"]
            /\ Call(t, "close_chk", "tracker", NoAddr, "close2")
    /\ UNCHANGED <<cfgVars, wireVars, lockVars, poolVars, conn, histVars>>

\* Client::close: test and set of the flag under the write lock, then
\* tracker_pool.close().
ClientClose(t) ==
    /\ pc[t] = "idle"
    /\ op' = [op EXCEPT ![t] = [NoOp EXCEPT !.kind = "close"]]
    /\ IF clientClosed
       THEN /\ res' = [res EXCEPT ![t] = "Done"]
            /\ UNCHANGED <<clientClosed, pc, ret, pl, arg>>
       ELSE /\ clientClosed' = TRUE
            /\ res' = [res EXCEPT ![t] = "none"]
            /\ Call(t, "close_chk", "tracker", NoAddr, "close2")
    /\ UNCHANGED <<cfgVars, wireVars, lockVars, poolVars, conn, histVars>>

\* self.storage_pool.close()
ClientCloseStorage(t) ==
    /\ pc[t] = "close2"
    /\ Call(t, "close_chk", "storage", NoAddr, "close_ret")
    /\ UNCHANGED <<cfgVars, wireVars, lockVars, poolVars, clientClosed, conn, res, op, histVars>>

ClientCloseReturn(t) ==
    /\ pc[t] = "close_ret"
    /\ ReturnOp(t, "Done")
    /\ UNCHANGED <<cfgVars, wireVars, lockVars, poolVars, clientClosed, conn, histVars>>

\* The tasks of the client: ClientTasks call every public operation,
\* CloseTasks call Client::close only.
Callers == ClientTasks \cup CloseTasks

Init ==
    /\ max_conns = MaxMaxConns
    /\ retry_count = MaxRetry
    /\ InitCommon

Next ==
    \/ \E t \in ClientTasks : OpStart(t)
    \/ \E t \in ClientTasks : AttemptStart(t)
    \/ \E t \in ClientTasks : Wake(t)
    \/ \E t \in ClientTasks : Send(t)
    \/ \E t \in ClientTasks : RecvHeader(t)
    \/ \E t \in ClientTasks : RecvBody(t)
    \/ \E t \in ClientTasks : Released(t)
    \/ \E t \in ClientTasks : StorageGet(t)
    \/ \E t \in Callers : ClientClose(t)
    \/ \E t \in Callers : ClientCloseStorage(t)
    \/ \E t \in Callers : ClientCloseReturn(t)
    \/ \E t \in Callers : GetChk(t)
    \/ \E t \in Callers : GetLock(t)
    \/ \E t \in Callers : GetConnect(t)
    \/ \E t \in Callers : PutChk(t)
    \/ \E t \in Callers : PutLock(t)
    \/ \E t \in Callers : AddChk(t)
    \/ \E t \in Callers : AddLock(t)
    \/ \E t \in Callers : PoolCloseChk(t)
    \/ \E t \in Callers : PoolCloseClear(t)
    \/ Tick

Spec == Init /\ [][Next]_vars

(***************************************************************************)
(* SpecSeq: the tasks call the public operations of a client that nobody   *)
(* closes, under every retry_count up to MaxBudget.                        *)
(***************************************************************************)
InitSeq ==
    /\ max_conns \in 0..MaxMaxConns
    /\ retry_count \in 0..MaxBudget
    /\ InitCommon

NextSeq ==
    \/ \E t \in ClientTasks : OpStart(t)
    \/ \E t \in ClientTasks : AttemptStart(t)
    \/ \E t \in ClientTasks : Wake(t)
    \/ \E t \in ClientTasks : Send(t)
    \/ \E t \in ClientTasks : RecvHeader(t)
    \/ \E t \in ClientTasks : RecvBody(t)
    \/ \E t \in ClientTasks : Released(t)
    \/ \E t \in ClientTasks : StorageGet(t)
    \/ \E t \in ClientTasks : GetChk(t)
    \/ \E t \in ClientTasks : GetLock(t)
    \/ \E t \in ClientTasks : GetConnect(t)
    \/ \E t \in ClientTasks : PutChk(t)
    \/ \E t \in ClientTasks : PutLock(t)
    \/ \E t \in ClientTasks : AddChk(t)
    \/ \E t \in ClientTasks : AddLock(t)
    \/ Tick

SpecSeq == InitSeq /\ [][NextSeq]_vars


(***************************************************************************)
(* SpecCancel: the operations of SpecSeq, whose futures the caller may     *)
(* drop at any of their suspension points.                                 *)
(***************************************************************************)

\* The positions at which an operation's future is suspended: the lock().await
\* of get, put and add_addr, the connect of create_connection, the writes and
\* reads of send and receive_full, the backoff sleep.
SuspensionPoints == {"get_chk", "get_lock", "get_conn", "put_chk", "put_lock",
                     "add_chk", "add_lock", "send", "recv_hdr", "recv_body",
                     "sleep"}

\* A cancellation that hands the connection of the dropped future back to the
\* free-list of its endpoint.
Cancel_PutBack(t) ==
    /\ pc[t] \in SuspensionPoints
    /\ pools' = IF conn[t] # NoConn /\ conns[conn[t]].addr \in DOMAIN pools[pl[t]]
                THEN [pools EXCEPT ![pl[t]][conns[conn[t]].addr] =
                                        Append(@, conn[t])]
                ELSE pools
    /\ conn' = [conn EXCEPT ![t] = NoConn]
    /\ owed' = [owed EXCEPT ![t] = 0]
    /\ pc' = [pc EXCEPT ![t] = "idle"]
    /\ res' = [res EXCEPT ![t] = "Cancelled"]
    /\ op' = [op EXCEPT ![t] = [NoOp EXCEPT !.kind = op[t].kind,
                                           !.attempt = op[t].attempt,
                                           !.len = op[t].len]]
    /\ ret' = [ret EXCEPT ![t] = "idle"]
    /\ pl' = [pl EXCEPT ![t] = PoolUnderTest]
    /\ arg' = [arg EXCEPT ![t] = NoAddr]
    /\ UNCHANGED <<cfgVars, wireVars, lockVars, closed, conns, clientClosed>>

\* The future of an operation is dropped while it is suspended: its locals go
\* with it, the `conn` of the attempt or the `conn` moved into put included, and
\* a dropped Connection closes its TcpStream.  No MutexGuard is alive at a
\* suspension point, so the pool's maps stay as they are.  op keeps the body
\* length the future was reading (history).
Cancel(t) ==
    /\ pc[t] \in SuspensionPoints
    /\ conns' = IF conn[t] # NoConn THEN DropAll({conn[t]}) ELSE conns
    /\ conn' = [conn EXCEPT ![t] = NoConn]
    /\ owed' = [owed EXCEPT ![t] = 0]
    /\ pc' = [pc EXCEPT ![t] = "idle"]
    /\ res' = [res EXCEPT ![t] = "Cancelled"]
    /\ op' = [op EXCEPT ![t] = [NoOp EXCEPT !.kind = op[t].kind,
                                           !.attempt = op[t].attempt,
                                           !.len = op[t].len]]
    /\ ret' = [ret EXCEPT ![t] = "idle"]
    /\ pl' = [pl EXCEPT ![t] = PoolUnderTest]
    /\ arg' = [arg EXCEPT ![t] = NoAddr]
    /\ UNCHANGED <<cfgVars, wireVars, lockVars, closed, pools, clientClosed>>

InitCancel ==
    /\ max_conns \in 0..MaxMaxConns
    /\ retry_count = MaxRetry
    /\ InitCommon

NextCancel ==
    \/ \E t \in ClientTasks : OpStart(t)
    \/ \E t \in ClientTasks : AttemptStart(t)
    \/ \E t \in ClientTasks : Wake(t)
    \/ \E t \in ClientTasks : Send(t)
    \/ \E t \in ClientTasks : RecvHeader(t)
    \/ \E t \in ClientTasks : RecvBody(t)
    \/ \E t \in ClientTasks : Released(t)
    \/ \E t \in ClientTasks : StorageGet(t)
    \/ \E t \in ClientTasks : GetChk(t)
    \/ \E t \in ClientTasks : GetLock(t)
    \/ \E t \in ClientTasks : GetConnect(t)
    \/ \E t \in ClientTasks : PutChk(t)
    \/ \E t \in ClientTasks : PutLock(t)
    \/ \E t \in ClientTasks : AddChk(t)
    \/ \E t \in ClientTasks : AddLock(t)
    \/ \E t \in ClientTasks : Cancel(t)
    \/ Tick

SpecCancel == InitCancel /\ [][NextCancel]_vars

(***************************************************************************)
(* SpecLive: the one task of SpecSeq with the configuration of Spec, where *)
(* a call that has begun goes on: every await of the task comes back       *)
(* (connect, send and receive_full within their timeouts, the sleep after  *)
(* its time, the tokio Mutex in its FIFO order).                           *)
(***************************************************************************)
Progress(t) ==
    \/ AttemptStart(t) \/ Wake(t) \/ Send(t) \/ RecvHeader(t) \/ RecvBody(t)
    \/ Released(t) \/ StorageGet(t) \/ GetChk(t) \/ GetLock(t) \/ GetConnect(t)
    \/ PutChk(t) \/ PutLock(t) \/ AddChk(t) \/ AddLock(t)

SpecLive == Init /\ [][NextSeq]_vars /\ \A t \in ClientTasks : WF_vars(Progress(t))

(***************************************************************************)
(* SpecExists: one task calls file_exists, another closes the client.      *)
(***************************************************************************)
NextExists ==
    \/ \E t \in ClientTasks : ExistsStart(t)
    \/ \E t \in ClientTasks : AttemptStart(t)
    \/ \E t \in ClientTasks : Send(t)
    \/ \E t \in ClientTasks : RecvHeader(t)
    \/ \E t \in ClientTasks : RecvBody(t)
    \/ \E t \in ClientTasks : Released(t)
    \/ \E t \in ClientTasks : StorageGet(t)
    \/ \E t \in Callers : ClientClose(t)
    \/ \E t \in Callers : ClientCloseStorage(t)
    \/ \E t \in Callers : ClientCloseReturn(t)
    \/ \E t \in Callers : GetChk(t)
    \/ \E t \in Callers : GetLock(t)
    \/ \E t \in Callers : GetConnect(t)
    \/ \E t \in Callers : PutChk(t)
    \/ \E t \in Callers : PutLock(t)
    \/ \E t \in Callers : AddChk(t)
    \/ \E t \in Callers : AddLock(t)
    \/ \E t \in Callers : PoolCloseChk(t)
    \/ \E t \in Callers : PoolCloseClear(t)
    \/ Tick

SpecExists == Init /\ [][NextExists]_vars

(***************************************************************************)
(* SpecStatus: a response header with any status byte is in hand and the   *)
(* status test maps it.                                                    *)
(***************************************************************************)
InitStatus ==
    /\ max_conns = MaxMaxConns
    /\ retry_count = MaxRetry
    /\ closed = [p \in PoolIds |-> FALSE]
    /\ pools = [p \in PoolIds |-> PoolNew(PoolAddrs(p))]
    /\ conns = [c \in ConnIds |-> NoConnection]
    /\ clientClosed = FALSE
    /\ pc = [t \in AllTasks |-> "idle"]
    /\ ret = [t \in AllTasks |-> "idle"]
    /\ pl = [t \in AllTasks |-> PoolUnderTest]
    /\ arg = [t \in AllTasks |-> NoAddr]
    /\ conn = [t \in AllTasks |-> NoConn]
    /\ res = [t \in AllTasks |-> "none"]
    /\ \E s \in StatusBytes :
          op = [t \in AllTasks |-> IF t \in ClientTasks
                                   THEN [NoOp EXCEPT !.status = s] ELSE NoOp]
    /\ owed = [t \in AllTasks |-> 0]
    /\ req = NoRequest
    /\ written = <<>>
    /\ held = [t \in AllTasks |-> {}]

\* `if resp_header.status != 0 { if let Some(err) = map_status_to_error(..)`
MapStatus(t) ==
    /\ res[t] = "none"
    /\ res' = [res EXCEPT ![t] = MapStatusToError(op[t].status)]
    /\ UNCHANGED <<cfgVars, wireVars, lockVars, poolVars, clientClosed, pc, ret, pl, arg, conn, op,
                   histVars>>

NextStatus == \E t \in ClientTasks : MapStatus(t)

SpecStatus == InitStatus /\ [][NextStatus]_vars

(***************************************************************************)
(* The wire format.  A byte string is a sequence of numbers 0..255; the    *)
(* strings of the model are ASCII, which from_utf8_lossy leaves as it is.  *)
(***************************************************************************)
HeaderLen == 10             \* FDFS_PROTO_HEADER_LEN
GroupNameMaxLen == 16       \* FDFS_GROUP_NAME_MAX_LEN
FileExtNameMaxLen == 6      \* FDFS_FILE_EXT_NAME_MAX_LEN
MaxMetaNameLen == 64        \* FDFS_MAX_META_NAME_LEN
MaxMetaValueLen == 256      \* FDFS_MAX_META_VALUE_LEN
RecordSeparator == 1        \* FDFS_RECORD_SEPARATOR
FieldSeparator == 2         \* FDFS_FIELD_SEPARATOR

Min(a, b) == IF a <= b THEN a ELSE b

\* BufMut::put_u64 / put_u32: the w low bytes of n, most significant first.
RECURSIVE BigEndian(_, _)
BigEndian(n, w) ==
    IF w = 0 THEN <<>> ELSE Append(BigEndian(n \div 256, w - 1), n % 256)

\* Buf::get_u64
RECURSIVE FromBigEndian(_)
FromBigEndian(bs) ==
    IF bs = <<>> THEN 0
    ELSE 256 * FromBigEndian(SubSeq(bs, 1, Len(bs) - 1)) + bs[Len(bs)]

\* encode_int64
EncodeInt64(n) == BigEndian(n, 8)

\* decode_int64
DecodeInt64(data) == IF Len(data) < 8 THEN 0 ELSE FromBigEndian(SubSeq(data, 1, 8))

\* encode_header
EncodeHeader(length, cmd, status) == EncodeInt64(length) \o <<cmd, status>>

\* pad_string: the first `length` bytes of s, then zero bytes up to `length`.
PadString(str, length) ==
    LET copy_len == Min(Len(str), length)
    IN  [i \in 1..length |-> IF i <= copy_len THEN str[i] ELSE 0]

\* unpad_string: the bytes up to the last one that is not zero.
UnpadString(data) ==
    LET nz == {i \in 1..Len(data) : data[i] # 0}
        end == IF nz = {} THEN 0 ELSE CHOOSE i \in nz : \A j \in nz : j <= i
    IN  SubSeq(data, 1, end)

\* A Metadata value is a function from keys to values; HashMap::new() is the
\* one with no key.
EmptyMap == [k \in {} |-> <<>>]

\* HashMap::insert
Insert(m, key, value) ==
    [k \in DOMAIN m \cup {key} |-> IF k = key THEN value ELSE m[k]]

\* The orders in which `for (key, value) in metadata` may visit the map.
Orders(m) ==
    {o \in [1..Cardinality(DOMAIN m) -> DOMAIN m] :
        \A i, j \in DOMAIN o : o[i] = o[j] => i = j}

\* The loop of encode_metadata over the keys in the order `order`.
RECURSIVE EncodeRecords(_, _)
EncodeRecords(m, order) ==
    IF order = <<>> THEN <<>>
    ELSE LET key_bytes == Head(order)
             value_bytes == m[key_bytes]
             key_len == Min(Len(key_bytes), MaxMetaNameLen)
             value_len == Min(Len(value_bytes), MaxMetaValueLen)
         IN  SubSeq(key_bytes, 1, key_len) \o <<FieldSeparator>>
                \o SubSeq(value_bytes, 1, value_len) \o <<RecordSeparator>>
                \o EncodeRecords(m, Tail(order))

\* encode_metadata
EncodeMetadata(m, order) ==
    IF DOMAIN m = {} THEN <<>> ELSE EncodeRecords(m, order)

\* slice::split: the pieces of data between the bytes equal to sep, the empty
\* ones included.
RECURSIVE Split(_, _)
Split(data, sep) ==
    LET at == {i \in 1..Len(data) : data[i] = sep}
    IN  IF at = {} THEN <<data>>
        ELSE LET i == CHOOSE x \in at : \A y \in at : x <= y
             IN  <<SubSeq(data, 1, i - 1)>>
                    \o Split(SubSeq(data, i + 1, Len(data)), sep)

\* The loop of decode_metadata over the records.
RECURSIVE DecodeRecords(_, _)
DecodeRecords(records, metadata) ==
    IF records = <<>> THEN metadata
    ELSE LET record == Head(records)
             fields == Split(record, FieldSeparator)
         IN  IF record = <<>> \/ Len(fields) # 2
             THEN DecodeRecords(Tail(records), metadata)
             ELSE DecodeRecords(Tail(records),
                                Insert(metadata, fields[1], fields[2]))

\* decode_metadata
DecodeMetadata(data) ==
    IF data = <<>> THEN EmptyMap
    ELSE DecodeRecords(Split(data, RecordSeparator), EmptyMap)

\* The maps built by at most n inserts of a key of K with a value of V.
RECURSIVE MapsUpTo(_, _, _)
MapsUpTo(K, V, n) ==
    IF n = 0 THEN {EmptyMap}
    ELSE LET S == MapsUpTo(K, V, n - 1)
         IN  S \cup {Insert(m, k, v) : m \in S, k \in K, v \in V}

(***************************************************************************)
(* The requests.  Each builder of operations.rs computes body_len, encodes *)
(* the header with it and calls conn.send once per element of Chunks.      *)
(***************************************************************************)
MaxExtLen == 7              \* longest file_ext_name handed to upload_buffer
MaxDataLen == 2             \* longest file content
MaxNameLen == 2             \* longest remote filename
MaxPairs == 2               \* most inserts into a metadata map

Str(n, b) == [i \in 1..n |-> b]

\* The group names split_file_id lets through: 1 to 16 bytes.
GroupNames == {Str(1, 103), Str(GroupNameMaxLen, 103)}
RemoteNames == {Str(n, 77) : n \in 1..MaxNameLen}
ExtNames == {Str(n, 101) : n \in 0..MaxExtLen}
Contents == {Str(n, 255) : n \in 0..MaxDataLen}
Int64s == {0, 1, 258, 65536}
PathIndexes == {0, 1}
Flags == {79, 77}           \* MetadataFlag::Overwrite, MetadataFlag::Merge
FrameMetas == MapsUpTo({<<97>>, <<98>>}, {<<>>, <<99>>}, MaxPairs)

RequestKinds ==
    {"upload", "upload_appender", "query_store", "query_fetch", "download",
     "delete", "set_metadata", "get_metadata", "get_file_info"}

Requests ==
    [kind : {"upload", "upload_appender"}, index : PathIndexes,
     ext : ExtNames, data : Contents]
    \cup [kind : {"query_store"}, group : {<<>>}]
    \cup [kind : {"query_fetch", "delete", "get_metadata", "get_file_info"},
          group : GroupNames, fname : RemoteNames]
    \cup [kind : {"download"}, group : GroupNames, fname : RemoteNames,
          offset : Int64s, length : Int64s]
    \cup UNION {[kind : {"set_metadata"}, group : GroupNames,
                 fname : RemoteNames, flag : Flags, meta : {m},
                 order : Orders(m)] : m \in FrameMetas}

\* TrackerCommand and StorageCommand `as u8`
Cmd(kind) ==
    CASE kind = "upload" -> 11
      [] kind = "upload_appender" -> 23
      [] kind = "delete" -> 12
      [] kind = "set_metadata" -> 13
      [] kind = "download" -> 14
      [] kind = "get_metadata" -> 15
      [] kind = "get_file_info" -> 22
      [] kind = "query_store" -> 101
      [] kind = "query_store_group" -> 104
      [] kind = "query_fetch" -> 102

\* upload_buffer_internal
UploadChunks(cmd, index, ext, data) ==
    LET ext_name_bytes == PadString(ext, FileExtNameMaxLen)
        body_len == 1 + FileExtNameMaxLen + Len(data)
    IN  <<EncodeHeader(body_len, cmd, 0), <<index>>, ext_name_bytes, data>>

\* get_storage_server
QueryStoreChunks(group) ==
    LET cmd == IF group = <<>> THEN Cmd("query_store")
               ELSE Cmd("query_store_group")
        body_len == IF group = <<>> THEN 0 ELSE GroupNameMaxLen
    IN  <<EncodeHeader(body_len, cmd, 0)>>
           \o (IF group # <<>> THEN <<PadString(group, GroupNameMaxLen)>>
               ELSE <<>>)

\* download_file_internal
DownloadChunks(group, fname, offset, length) ==
    LET body_len == 16 + Len(fname)
        body == EncodeInt64(offset) \o EncodeInt64(length) \o fname
    IN  <<EncodeHeader(body_len, Cmd("download"), 0), body>>

\* get_download_storage_server, delete_file_internal, get_metadata and
\* get_file_info build the same body under their own command.
FileChunks(cmd, group, fname) ==
    LET body_len == GroupNameMaxLen + Len(fname)
        body == PadString(group, GroupNameMaxLen) \o fname
    IN  <<EncodeHeader(body_len, cmd, 0), body>>

\* A set_metadata that does not count the flag byte.
SetMetadataLen_NoFlag(fname, metadata_bytes) ==
    2 * 8 + GroupNameMaxLen + Len(fname) + Len(metadata_bytes)

\* set_metadata: body_len
SetMetadataLen(fname, metadata_bytes) ==
    2 * 8 + 1 + GroupNameMaxLen + Len(fname) + Len(metadata_bytes)

\* set_metadata
SetMetadataChunks(group, fname, flag, meta, order) ==
    LET metadata_bytes == EncodeMetadata(meta, order)
        body_len == SetMetadataLen(fname, metadata_bytes)
        body == EncodeInt64(Len(fname)) \o EncodeInt64(Len(metadata_bytes))
                   \o <<flag>> \o PadString(group, GroupNameMaxLen)
                   \o fname \o metadata_bytes
    IN  <<EncodeHeader(body_len, Cmd("set_metadata"), 0), body>>

\* The arguments of conn.send, in the order of the calls, for request r.
Chunks(r) ==
    CASE r.kind \in {"upload", "upload_appender"} ->
            UploadChunks(Cmd(r.kind), r.index, r.ext, r.data)
      [] r.kind = "query_store" -> QueryStoreChunks(r.group)
      [] r.kind = "download" ->
            DownloadChunks(r.group, r.fname, r.offset, r.length)
      [] r.kind \in {"query_fetch", "delete", "get_metadata", "get_file_info"} ->
            FileChunks(Cmd(r.kind), r.group, r.fname)
      [] r.kind = "set_metadata" ->
            SetMetadataChunks(r.group, r.fname, r.flag, r.meta, r.order)

\* The client at rest: pools as constructed, no task in an operation.
Quiescent ==
    /\ max_conns = MaxMaxConns
    /\ retry_count = MaxRetry
    /\ closed = [p \in PoolIds |-> FALSE]
    /\ pools = [p \in PoolIds |-> PoolNew(PoolAddrs(p))]
    /\ conns = [c \in ConnIds |-> NoConnection]
    /\ clientClosed = FALSE
    /\ pc = [t \in AllTasks |-> "idle"]
    /\ ret = [t \in AllTasks |-> "idle"]
    /\ pl = [t \in AllTasks |-> PoolUnderTest]
    /\ arg = [t \in AllTasks |-> NoAddr]
    /\ conn = [t \in AllTasks |-> NoConn]
    /\ res = [t \in AllTasks |-> "none"]
    /\ op = [t \in AllTasks |-> NoOp]
    /\ owed = [t \in AllTasks |-> 0]
    /\ held = [t \in AllTasks |-> {}]

restVars == <<cfgVars, lockVars, poolVars, clientClosed, pc, ret, pl, arg, conn,
              res, op, histVars>>

InitFrame ==
    /\ Quiescent
    /\ req \in Requests
    /\ written = <<>>

\* `conn.send(..).await?` : the next piece of the request goes out.
SendChunk ==
    /\ req.kind \in RequestKinds
    /\ Len(written) < Len(Chunks(req))
    /\ written' = Append(written, Chunks(req)[Len(written) + 1])
    /\ UNCHANGED <<req, restVars>>

NextFrame == SendChunk

SpecFrame == InitFrame /\ [][NextFrame]_vars

(***************************************************************************)
(* The metadata codec on its own: a map is encoded, and what was encoded   *)
(* is decoded.  Keys and values are Rust Strings, which may hold any       *)
(* character, the separator bytes 0x01 and 0x02 included.                  *)
(***************************************************************************)
MaxMetaStr == 1             \* longest key or value

MetaBytes == {RecordSeparator, FieldSeparator, 97}
MetaStrings == UNION {[1..n -> MetaBytes] : n \in 0..MaxMetaStr}
Metadatas == MapsUpTo(MetaStrings, MetaStrings, MaxPairs)

InitMeta ==
    /\ Quiescent
    /\ \E m \in Metadatas : \E o \in Orders(m) :
          req = [kind |-> "metadata", meta |-> m, order |-> o]
    /\ written = <<>>

\* `let encoded = encode_metadata(&metadata)`
EncodeMeta ==
    /\ req.kind = "metadata"
    /\ written = <<>>
    /\ written' = <<EncodeMetadata(req.meta, req.order)>>
    /\ UNCHANGED <<req, restVars>>

\* `decode_metadata(&encoded)`
DecodeMeta ==
    /\ req.kind = "metadata"
    /\ Len(written) = 1
    /\ written' = Append(written, DecodeMetadata(written[1]))
    /\ UNCHANGED <<req, restVars>>

NextMeta == EncodeMeta \/ DecodeMeta

SpecMeta == InitMeta /\ [][NextMeta]_vars

(***************************************************************************)
(* The fixed-width string codec on its own: a string is padded to a width, *)
(* and the padded field is unpadded.  A Rust &str may hold the character   *)
(* U+0000, whose encoding is the byte 0.                                   *)
(***************************************************************************)
MaxPadStr == 3              \* longest string padded
MaxPad == 4                 \* widest field

PadBytes == {0, 97, 98}
PadStrings == UNION {[1..n -> PadBytes] : n \in 0..MaxPadStr}

InitPad ==
    /\ Quiescent
    /\ \E s \in PadStrings : \E n \in 0..MaxPad :
          req = [kind |-> "pad", str |-> s, length |-> n]
    /\ written = <<>>

\* `let padded = pad_string(s, length)`
Pad ==
    /\ req.kind = "pad"
    /\ written = <<>>
    /\ written' = <<PadString(req.str, req.length)>>
    /\ UNCHANGED <<req, restVars>>

\* `unpad_string(&padded)`
Unpad ==
    /\ req.kind = "pad"
    /\ Len(written) = 1
    /\ written' = Append(written, UnpadString(written[1]))
    /\ UNCHANGED <<req, restVars>>

NextPad == Pad \/ Unpad

SpecPad == InitPad /\ [][NextPad]_vars

(***************************************************************************)
(* The file-ID codec on its own: a file ID is split, and what was split is *)
(* joined again.                                                           *)
(***************************************************************************)
MaxIdLen == 5               \* longest file ID over the two-letter alphabet
MaxRest == 2                \* longest remainder after a long group name

Slash == 47                 \* '/'
IdBytes == {Slash, 97}
ShortIds == UNION {[1..n -> IdBytes] : n \in 0..MaxIdLen}

\* File IDs whose first component has 15, 16 or 17 bytes.
LongIds ==
    {Str(n, 97) \o <<Slash>> \o rest :
        n \in (GroupNameMaxLen - 1)..(GroupNameMaxLen + 1),
        rest \in UNION {[1..k -> IdBytes] : k \in 0..MaxRest}}

FileIds == ShortIds \cup LongIds

\* A splitn that cuts at the last '/'.
SplitN2_Last(s) ==
    LET at == {i \in 1..Len(s) : s[i] = Slash}
    IN  IF at = {} THEN <<s>>
        ELSE LET i == CHOOSE x \in at : \A y \in at : y <= x
             IN  <<SubSeq(s, 1, i - 1), SubSeq(s, i + 1, Len(s))>>

\* `file_id.splitn(2, '/').collect()`: cut at the first '/', if there is one.
SplitN2(s) ==
    LET at == {i \in 1..Len(s) : s[i] = Slash}
    IN  IF at = {} THEN <<s>>
        ELSE LET i == CHOOSE x \in at : \A y \in at : x <= y
             IN  <<SubSeq(s, 1, i - 1), SubSeq(s, i + 1, Len(s))>>

InvalidFileId == [err |-> "InvalidFileId"]

\* split_file_id
SplitFileId(file_id) ==
    IF file_id = <<>> THEN InvalidFileId
    ELSE LET parts == SplitN2(file_id)
         IN  IF Len(parts) # 2 THEN InvalidFileId
             ELSE LET group_name == parts[1]
                      remote_filename == parts[2]
                  IN  IF group_name = <<>> \/ Len(group_name) > GroupNameMaxLen
                      THEN InvalidFileId
                      ELSE IF remote_filename = <<>> THEN InvalidFileId
                      ELSE [err |-> "Ok", group_name |-> group_name,
                            remote_filename |-> remote_filename]

\* join_file_id: format!("{}/{}", group_name, remote_filename)
JoinFileId(group_name, remote_filename) ==
    group_name \o <<Slash>> \o remote_filename

InitFileId ==
    /\ Quiescent
    /\ \E id \in FileIds : req = [kind |-> "file_id", id |-> id]
    /\ written = <<>>

\* `split_file_id(file_id)`
SplitId ==
    /\ req.kind = "file_id"
    /\ written = <<>>
    /\ written' = <<SplitFileId(req.id)>>
    /\ UNCHANGED <<req, restVars>>

\* `join_file_id(&group_name, &remote_filename)` on what split_file_id gave
JoinId ==
    /\ req.kind = "file_id"
    /\ Len(written) = 1
    /\ written[1].err = "Ok"
    /\ written' = Append(written, JoinFileId(written[1].group_name,
                                             written[1].remote_filename))
    /\ UNCHANGED <<req, restVars>>

NextFileId == SplitId \/ JoinId

SpecFileId == InitFileId /\ [][NextFileId]_vars

(***************************************************************************)
(* get_file_ext_name on its own.  Path::extension is the part of the file  *)
(* name after its last '.', and None when the name has no '.' or when its  *)
(* only '.' is its first byte.                                             *)
(***************************************************************************)
MaxStem == 4                \* longest file name over the two-letter alphabet
MaxLongExt == 7             \* longest extension of the long names

Dot == 46                   \* '.'
NameBytes == {Dot, 97}
ShortNames ==
    UNION {[1..n -> NameBytes] : n \in 1..MaxStem} \ {<<Dot>>, <<Dot, Dot>>}
LongNames == {<<97, Dot>> \o Str(n, 101) : n \in (MaxStem + 1)..MaxLongExt}
Dirs == {<<>>, <<100, Slash>>, <<100, Dot, 100, Slash>>}
Filenames == {d \o n : d \in Dirs, n \in ShortNames \cup LongNames}

NoneValue == [some |-> FALSE]
Some(v) == [some |-> TRUE, value |-> v]

\* Path::file_name: the last component, unless the path has none or ends
\* in "..".  Components are the pieces between '/', the empty ones and the
\* "." ones left out.
FileName(path) ==
    LET pieces == Split(path, Slash)
        kept == SelectSeq(pieces, LAMBDA c : c # <<>> /\ c # <<Dot>>)
    IN  IF kept = <<>> \/ kept[Len(kept)] = <<Dot, Dot>> THEN NoneValue
        ELSE Some(kept[Len(kept)])

\* Path::extension: rsplitn(2, '.') of the file name gives `after` and
\* `before`; None when there is no `before` or `before` is empty.
Extension(path) ==
    LET file == FileName(path)
    IN  IF ~file.some THEN NoneValue
        ELSE LET at == {i \in 1..Len(file.value) : file.value[i] = Dot}
             IN  IF at = {} THEN NoneValue
                 ELSE LET i == CHOOSE x \in at : \A y \in at : y <= x
                      IN  IF i = 1 THEN NoneValue
                          ELSE Some(SubSeq(file.value, i + 1, Len(file.value)))

\* get_file_ext_name
GetFileExtName(filename) ==
    LET e == Extension(filename)
        ext == IF e.some THEN e.value ELSE <<>>
    IN  IF Len(ext) > FileExtNameMaxLen
        THEN SubSeq(ext, 1, FileExtNameMaxLen)
        ELSE ext

InitExt ==
    /\ Quiescent
    /\ \E f \in Filenames : req = [kind |-> "ext", filename |-> f]
    /\ written = <<>>

\* `let ext_name = get_file_ext_name(local_filename)`
ExtName ==
    /\ req.kind = "ext"
    /\ written = <<>>
    /\ written' = <<GetFileExtName(req.filename)>>
    /\ UNCHANGED <<req, restVars>>

NextExt == ExtName

SpecExt == InitExt /\ [][NextExt]_vars


(***************************************************************************)
(* SpecPort: the tracker's answer to a storage query is parsed and the     *)
(* address of the storage server is made of it.                            *)
(***************************************************************************)
MaxPortHigh == 2            \* largest port field, in multiples of 65536
MaxCut == 2                 \* most bytes missing from the end of the body

IpAddressSize == 16         \* IP_ADDRESS_SIZE
PortLows == {0, 80, 23000, 65535}
PortFields == {h * 65536 + l : h \in 0..MaxPortHigh, l \in PortLows}
IpAddrs == {<<49>>, <<49, 48, 46, 48, 46, 48, 46, 50>>}
Queries == {"store", "fetch"}

\* The body a tracker sends: group name, IP address, port, store path index.
TrackerBody(ip, port, index) ==
    Str(GroupNameMaxLen, 103) \o PadString(ip, IpAddressSize)
        \o EncodeInt64(port) \o <<index>>

\* A conversion of the port that stops at the largest u16.
AsU16_Saturating(n) == Min(n, 65535)

\* `decode_int64(..) as u16`: the low 16 bits.
AsU16(n) == n % 65536

\* The parse of resp_body in get_storage_server ("store") and in
\* get_download_storage_server ("fetch").
ParseStorageServer(query, resp_body) ==
    LET need == GroupNameMaxLen + IpAddressSize + (IF query = "store" THEN 9 ELSE 8)
        ip_at == GroupNameMaxLen
        port_at == ip_at + IpAddressSize
    IN  IF Len(resp_body) < need
        THEN [err |-> "InvalidResponse"]
        ELSE [ip_addr |-> UnpadString(SubSeq(resp_body, ip_at + 1,
                                             ip_at + IpAddressSize)),
              port |-> AsU16(DecodeInt64(SubSeq(resp_body, port_at + 1,
                                                port_at + 8))),
              store_path_index |-> IF query = "store" THEN resp_body[port_at + 9]
                                                      ELSE 0]

\* The decimal digits of n, as `{}` formats an integer.
RECURSIVE Decimal(_)
Decimal(n) ==
    IF n < 10 THEN <<48 + n>> ELSE Append(Decimal(n \div 10), 48 + (n % 10))

\* format!("{}:{}", storage_server.ip_addr, storage_server.port)
StorageAddr(storage_server) ==
    storage_server.ip_addr \o <<58>> \o Decimal(storage_server.port)

InitPort ==
    /\ Quiescent
    /\ \E q \in Queries, ip \in IpAddrs, port \in PortFields, index \in PathIndexes,
          cut \in 0..MaxCut :
          LET body == TrackerBody(ip, port, index)
          IN  req = [kind |-> "tracker_resp", query |-> q, ip |-> ip, port |-> port,
                     body |-> SubSeq(body, 1, Len(body) - cut)]
    /\ written = <<>>

\* The body has been received: the storage server is parsed out of it.
ParseBody ==
    /\ req.kind = "tracker_resp"
    /\ written = <<>>
    /\ written' = <<ParseStorageServer(req.query, req.body)>>
    /\ UNCHANGED <<req, restVars>>

\* `let storage_addr = format!(..)`, handed to storage_pool.add_addr and get.
FormatAddr ==
    /\ req.kind = "tracker_resp"
    /\ Len(written) = 1
    /\ "err" \notin DOMAIN written[1]
    /\ written' = Append(written, StorageAddr(written[1]))
    /\ UNCHANGED <<req, restVars>>

NextPort == ParseBody \/ FormatAddr

SpecPort == InitPort /\ [][NextPort]_vars

(***************************************************************************)
(* Where a connection is.                                                  *)
(***************************************************************************)
Occurrences(lst, c) == Cardinality({i \in 1..Len(lst) : lst[i] = c})

\* The number of free-list entries, over both pools, that are connection c.
TimesIdle(c) ==
    LET Slots == {<<p, e>> \in PoolIds \X (SeqElems(TrackerAddrs) \cup StorageAddrs) :
                      e \in DOMAIN pools[p]}
        RECURSIVE Sum(_)
        Sum(S) == IF S = {} THEN 0
                  ELSE LET x == CHOOSE y \in S : TRUE
                       IN  Occurrences(pools[x[1]][x[2]], c) + Sum(S \ {x})
    IN  Sum(Slots)

\* The tasks that have connection c checked out (a put in progress included).
Holders(c) == {t \in AllTasks : conn[t] = c}

(***************************************************************************)
(* C1: in every reachable state each connection is in at most one place:   *)
(* checked out by exactly one task, or once in exactly one free-list;      *)
(* what a task holds is an open connection that is in no free-list.        *)
(***************************************************************************)
C1_OnePlace ==
    /\ \A c \in ConnIds : Cardinality(Holders(c)) + TimesIdle(c) <= 1
    /\ \A c \in Open : Cardinality(Holders(c)) + TimesIdle(c) = 1
    /\ \A t \in AllTasks : conn[t] # NoConn => conn[t] \in Open

\* Two tasks hold a connection each, both returned by get for the same endpoint.
C1_Witness ==
    \E t, u \in PoolTasks :
        /\ t # u
        /\ pc[t] = "idle" /\ res[t] = "Ok" /\ conn[t] # NoConn
        /\ pc[u] = "idle" /\ res[u] = "Ok" /\ conn[u] # NoConn
        /\ conns[conn[t]].addr = conns[conn[u]].addr

(***************************************************************************)
(* C5: in every reachable state every endpoint's free-list holds at most   *)
(* max_conns connections (none at all when max_conns = 0).                 *)
(***************************************************************************)
C5_IdleAtMostMaxConns ==
    \A p \in PoolIds : \A e \in DOMAIN pools[p] : Len(pools[p][e]) <= max_conns

\* A put reaches the pools lock while the list of its endpoint is full.
C5_Witness ==
    \E t \in PoolTasks :
        /\ pc[t] = "put_lock"
        /\ max_conns = MaxMaxConns
        /\ conns[conn[t]].addr \in DOMAIN pools[pl[t]]
        /\ Len(pools[pl[t]][conns[conn[t]].addr]) = max_conns

(***************************************************************************)
(* C7: once ConnectionPool::close has completed, every free-list of the    *)
(* pool is empty, whatever calls follow or were in flight.                 *)
(***************************************************************************)
PoolCloseDone(p) ==
    /\ closed[p]
    /\ \A t \in AllTasks : ~(pc[t] = "close_clear" /\ pl[t] = p)

C7_EmptyAfterClose ==
    \A p \in PoolIds :
        PoolCloseDone(p) => \A e \in DOMAIN pools[p] : pools[p][e] = <<>>

(***************************************************************************)
(* C8: the closed flag is never cleared, and a get whose closed check runs *)
(* after close set the flag returns ClientClosed, pops nothing and opens   *)
(* no connection.                                                          *)
(***************************************************************************)
C8_ClosedStep ==
    /\ \A p \in PoolIds : closed[p] => closed'[p]
    /\ \A t \in AllTasks :
          (pc[t] = "get_chk" /\ closed[pl[t]] /\ pc'[t] # pc[t])
              => /\ pc'[t] = ret[t]
                 /\ res'[t] = "ClientClosed"
                 /\ conn'[t] = NoConn
                 /\ pools' = pools
                 /\ conns' = conns

C8_ClosedMonotonic == [][C8_ClosedStep]_vars

\* A get has returned ClientClosed from the closed pool.
C8_Witness ==
    \E t \in PoolTasks :
        /\ closed[pl[t]]
        /\ pc[t] = "idle"
        /\ res[t] = "ClientClosed"

(***************************************************************************)
(* C2: every connection in a free-list has had the response to every       *)
(* request sent on it consumed: the header and all the body bytes the      *)
(* header declared.                                                        *)
(***************************************************************************)
C2_PooledConnectionsClean ==
    \A p \in PoolIds : \A c \in Idle(p) : conns[c].wire = "clean"

(***************************************************************************)
(* C3: a step in which a send or receive_full of task t fails closes the   *)
(* connection: it is in no free-list, it is not handed to put and the task *)
(* no longer holds it.                                                     *)
(***************************************************************************)
IoFailed(t) ==
    /\ pc[t] \in {"send", "recv_hdr", "recv_body"}
    /\ conn[t] # NoConn
    /\ pc'[t] # pc[t]
    /\ \/ res'[t] \in IoErrors
       \/ pc'[t] \notin {"recv_hdr", "recv_body", "put_chk"}

C3_Step ==
    \A t \in AllTasks :
        IoFailed(t) => /\ conns'[conn[t]].st = "free"
                       /\ conn'[t] = NoConn
                       /\ \A p \in PoolIds : \A e \in DOMAIN pools'[p] :
                              conn[t] \notin SeqElems(pools'[p][e])

C3_FailedConnectionAbandoned == [][C3_Step]_vars

\* A receive or send timed out, the attempt is over and no connection is
\* left, open or pooled.
C3_Witness ==
    \E t \in ClientTasks :
        /\ pc[t] = "sleep"
        /\ res[t] = "NetworkTimeout"
        /\ conn[t] = NoConn
        /\ Open = {}

(***************************************************************************)
(* C4: a task owes a release for at most one connection, never for less    *)
(* than none (no second put), and owes none and holds none wherever no     *)
(* exchange is running: between attempts, between the tracker and the      *)
(* storage exchange and when the operation has returned.                   *)
(***************************************************************************)
C4_ReleasedExactlyOnce ==
    \A t \in Callers :
        /\ owed[t] \in {0, 1}
        /\ owed[t] = 1 => conn[t] # NoConn /\ conns[conn[t]].st = "open"
        /\ pc[t] \in {"idle", "attempt", "sleep", "released", "add_chk",
                      "add_lock", "s_get", "get_chk", "get_lock", "get_conn"}
              => owed[t] = 0 /\ conn[t] = NoConn

\* A download has returned Ok and its storage connection is back in the pool.
C4_Witness ==
    \E t \in ClientTasks :
        /\ pc[t] = "idle"
        /\ op[t].kind = "download"
        /\ res[t] = "Ok"
        /\ owed[t] = 0
        /\ conn[t] = NoConn
        /\ Idle("storage") # {}

(***************************************************************************)
(* C6: with max_conns configured to one or more, no endpoint ever has more *)
(* than max_conns open connections, idle and checked out together.         *)
(***************************************************************************)
OpenTo(e) == {c \in Open : conns[c].addr = e}

C6_OpenAtMostMaxConns ==
    max_conns >= 1 =>
        \A e \in SeqElems(TrackerAddrs) \cup StorageAddrs :
            Cardinality(OpenTo(e)) <= max_conns

(***************************************************************************)
(* C9: once the client's closed flag is set, a public operation that       *)
(* starts returns ClientClosed in that step: it enters neither pool and    *)
(* no connection is opened, popped or changed.                             *)
(***************************************************************************)
OpKinds == {"upload", "download", "delete", "set_metadata", "get_metadata",
            "get_file_info"}

\* Task t is idle and makes a public call whose trace shows in op, res.
Calls(t) ==
    /\ pc[t] = "idle"
    /\ <<op'[t], res'[t], pc'[t]>> # <<op[t], res[t], pc[t]>>

C9_Step ==
    \A t \in AllTasks :
        (clientClosed /\ Calls(t) /\ op'[t].kind \in OpKinds)
            => /\ pc'[t] = "idle"
               /\ res'[t] = "ClientClosed"
               /\ UNCHANGED <<closed, pools, conns, conn>>

C9_ClosedClientRefuses == [][C9_Step]_vars

\* The first close is over; a get_file_info called since has returned
\* ClientClosed.
C9_Witness ==
    /\ clientClosed
    /\ \A p \in PoolIds : closed[p]
    /\ \A t \in Callers : pc[t] = "idle"
    /\ \E t \in ClientTasks : op[t].kind = "get_file_info" /\ res[t] = "ClientClosed"

(***************************************************************************)
(* C10: a Client::close that finds the flag set returns at once, without   *)
(* an error, and changes neither the flag nor a pool nor a connection;     *)
(* the first close, once over, has left the flag set and both pools        *)
(* closed, and its clear leaves the pool without any free-list.            *)
(***************************************************************************)
ClientCloseOver ==
    /\ clientClosed
    /\ \A t \in AllTasks : op[t].kind = "close" => pc[t] = "idle"

C10_Step ==
    \A t \in AllTasks :
        /\ (clientClosed /\ Calls(t) /\ op'[t].kind = "close")
              => /\ pc'[t] = "idle"
                 /\ res'[t] = "Done"
                 /\ UNCHANGED <<clientClosed, closed, pools, conns>>
        /\ (pc[t] = "close_clear" /\ pc'[t] # pc[t])
              => DOMAIN pools'[pl[t]] = {}

C10_CloseIdempotent ==
    /\ [](ClientCloseOver => \A p \in PoolIds : closed[p])
    /\ [][C10_Step]_vars

\* Two tasks have called close and both calls have returned.
C10_Witness ==
    /\ clientClosed
    /\ \A p \in PoolIds : closed[p] /\ DOMAIN pools[p] = {}
    /\ \E t, u \in Callers :
          /\ t # u
          /\ op[t].kind = "close" /\ pc[t] = "idle" /\ res[t] = "Done"
          /\ op[u].kind = "close" /\ pc[u] = "idle" /\ res[u] = "Done"

(***************************************************************************)
(* The attempts of upload_buffer, download_file and delete_file.           *)
(***************************************************************************)
\* Task t ends an attempt of a retry loop in this step.
EndsAttempt(t) ==
    /\ op[t].kind \in RetryKinds
    /\ pc[t] \notin {"idle", "sleep"}
    /\ pc'[t] \in {"idle", "sleep"}
    /\ ~(pc[t] = "attempt" /\ ~op[t].inner /\ op[t].attempt >= retry_count)

\* The result of the attempt that ends: Ok once the upload's storage exchange
\* has succeeded, the error split_file_id, get or the exchange came back with,
\* or the error of the send or receive_full that fails in this step.
AttemptOutcome(t) ==
    IF op[t].inner THEN "Ok"
    ELSE IF pc[t] = "attempt" THEN "InvalidFileId"
    ELSE IF pc[t] = "released" \/ conn[t] = NoConn THEN res[t]
    ELSE res'[t]

(***************************************************************************)
(* C11: upload_buffer, download_file and delete_file run attempts with the *)
(* indices 0 .. retry_count-1 only; an attempt that succeeds makes the     *)
(* call return Ok at once; a failed attempt that is not the last makes it  *)
(* sleep; the last attempt's failure is the error the call returns.        *)
(***************************************************************************)
C11_IndexBound ==
    \A t \in ClientTasks :
        op[t].kind \in RetryKinds =>
            /\ pc[t] \notin {"idle", "attempt"} => op[t].attempt < retry_count
            /\ op[t].attempt < retry_count \/ op[t].attempt = 0

C11_Step ==
    \A t \in ClientTasks :
        EndsAttempt(t) =>
            LET out == AttemptOutcome(t)
            IN  /\ out = "Ok" => pc'[t] = "idle" /\ res'[t] = "Ok"
                /\ (out # "Ok" /\ op[t].attempt = retry_count - 1)
                      => pc'[t] = "idle" /\ res'[t] = out
                /\ (out # "Ok" /\ op[t].attempt # retry_count - 1)
                      => pc'[t] = "sleep" /\ res'[t] = out
                /\ (conn[t] # NoConn /\ pc[t] # "released" /\ ~op[t].inner)
                      => res'[t] \in IoErrors
                /\ op'[t].attempt = op[t].attempt

C12_OneUploadDelivered ==
    \A t \in ClientTasks : op[t].sent <= 1

(***************************************************************************)
(* C13: in the retry loop an attempt that fails before the last one is     *)
(* followed by the sleep and by the next attempt whatever the error is,    *)
(* permanent (FileNotFound, InvalidFileId, InvalidResponse, ClientClosed,  *)
(* ...) or transient; an error is returned only by the last attempt.       *)
(***************************************************************************)
ErrorKinds == PermanentErrors \cup IoErrors \cup
              {"InsufficientSpace", "Protocol", "NoStorageServer",
               "ConnectionTimeout"}

C13_Step ==
    \A t \in ClientTasks :
        /\ \A e \in ErrorKinds :
              (EndsAttempt(t) /\ AttemptOutcome(t) = e)
                  => IF op[t].attempt < retry_count - 1
                     THEN pc'[t] = "sleep" /\ res'[t] = e
                     ELSE pc'[t] = "idle" /\ res'[t] = e
        /\ (op[t].kind \in RetryKinds /\ pc[t] = "sleep" /\ pc'[t] # "sleep")
              => /\ pc'[t] = "attempt"
                 /\ op'[t].attempt = op[t].attempt + 1
                 /\ op'[t].attempt < retry_count

C13_EveryErrorRetried == [][C13_Step]_vars

\* A delete whose first attempt failed with ClientClosed has slept and is at
\* the start of its second attempt.
C13_Witness ==
    \E t \in ClientTasks :
        /\ op[t].kind = "delete"
        /\ pc[t] = "attempt"
        /\ op[t].attempt = 1
        /\ res[t] = "ClientClosed"

(***************************************************************************)
(* C14: the sleep after the k-th failed attempt (index k-1) lasts k        *)
(* seconds and there is one only for k < retry_count; attempt k+1 starts   *)
(* from that sleep and from nowhere else, when the task holds no           *)
(* connection and is in no pool call, so that attempts never overlap.      *)
(***************************************************************************)
C14_Sleeping ==
    \A t \in ClientTasks :
        /\ pc[t] = "sleep" => /\ op[t].kind \in RetryKinds
                              /\ op[t].nap = op[t].attempt + 1
                              /\ op[t].attempt + 1 < retry_count
                              /\ res[t] \notin {"Ok", "none"}
        /\ pc[t] # "sleep" => op[t].nap = 0
        /\ pc[t] \in {"sleep", "attempt"} => /\ conn[t] = NoConn
                                             /\ owed[t] = 0
                                             /\ ret[t] = "idle"

C14_Step ==
    \A t \in ClientTasks :
        /\ (pc[t] = "sleep" /\ pc'[t] # "sleep")
              => /\ pc'[t] = "attempt"
                 /\ op'[t].attempt = op[t].attempt + 1
        /\ (op[t].kind \in RetryKinds /\ pc[t] # "idle"
                /\ op'[t].attempt # op[t].attempt)
              => /\ pc[t] = "sleep"
                 /\ op'[t].attempt = op[t].attempt + 1

C14_LinearBackoff == []C14_Sleeping /\ [][C14_Step]_vars

\* An upload sleeps two seconds after its second failed attempt.
C14_Witness ==
    \E t \in ClientTasks :
        /\ pc[t] = "sleep"
        /\ op[t].kind = "upload"
        /\ op[t].attempt = 1
        /\ op[t].nap = 2

(***************************************************************************)
(* C15: an attempt turns to the storage pool only when its tracker         *)
(* exchange is over with success: header of status 0 and body read, the    *)
(* tracker connection put back.  Every attempt starts at the tracker, and  *)
(* a connection to a storage server is held in the storage exchange only.  *)
(***************************************************************************)
C15_Phases ==
    \A t \in ClientTasks :
        /\ pc[t] \in {"idle", "sleep", "attempt"} => pl[t] = "tracker"
        /\ conn[t] # NoConn =>
              (conns[conn[t]].addr \in StorageAddrs <=> pl[t] = "storage")

C15_Step ==
    \A t \in ClientTasks :
        /\ (pl[t] # "storage" /\ pl'[t] = "storage")
              => /\ pc[t] = "released"
                 /\ res[t] = "Ok"
                 /\ op[t].status = 0
                 /\ conn[t] = NoConn
                 /\ arg[t] \in StorageAddrs
                 /\ pc'[t] = "add_chk"
        /\ (pl[t] = "tracker" /\ pc[t] \in {"send", "recv_hdr", "recv_body", "released"}
                /\ pc'[t] # pc[t] /\ res'[t] # "Ok")
              => pl'[t] = "tracker"

C15_TrackerBeforeStorage == []C15_Phases /\ [][C15_Step]_vars

\* The request of a get_metadata has been written to a storage server.
C15_Witness ==
    \E t \in ClientTasks :
        /\ op[t].kind = "get_metadata"
        /\ pl[t] = "storage"
        /\ pc[t] = "recv_hdr"
        /\ conns[conn[t]].addr \in StorageAddrs

(***************************************************************************)
(* C16: when the storage exchange of an upload has succeeded, set_metadata *)
(* is started if and only if non-empty metadata was passed, and once; the  *)
(* upload then returns Ok whatever set_metadata comes back with, with no   *)
(* sleep and no further attempt; without metadata the upload returns Ok    *)
(* at once.                                                                *)
(***************************************************************************)
UploadStored(t) ==
    /\ op[t].kind = "upload"
    /\ ~op[t].inner
    /\ pc[t] = "released"
    /\ pl[t] = "storage"
    /\ res[t] = "Ok"

C16_Inner ==
    \A t \in ClientTasks :
        /\ op[t].inner => op[t].kind = "upload" /\ op[t].meta /\ pc[t] # "sleep"
        /\ op[t].meta_out # "none" => op[t].kind = "upload" /\ res[t] = "Ok"

C16_Step ==
    \A t \in ClientTasks :
        /\ (UploadStored(t) /\ pc'[t] # pc[t])
              => IF op[t].meta
                 THEN /\ op'[t].inner
                      /\ pc'[t] = "attempt"
                      /\ op'[t].attempt = op[t].attempt
                 ELSE /\ pc'[t] = "idle"
                      /\ res'[t] = "Ok"
                      /\ op'[t].meta_out = "none"
        /\ (~op[t].inner /\ op'[t].inner) => UploadStored(t) /\ op[t].meta
        /\ (op[t].inner /\ pc'[t] # pc[t] /\ ~op'[t].inner)
              => /\ pc'[t] = "idle"
                 /\ res'[t] = "Ok"
                 /\ op'[t].meta_out # "none"
                 /\ op'[t].attempt = op[t].attempt
        /\ (op[t].inner /\ op'[t].inner) => op'[t].attempt = op[t].attempt

C16_MetadataBestEffort == []C16_Inner /\ [][C16_Step]_vars

\* An upload has returned Ok although its set_metadata failed.
C16_Witness ==
    \E t \in ClientTasks :
        /\ pc[t] = "idle"
        /\ op[t].kind = "upload"
        /\ res[t] = "Ok"
        /\ op[t].meta_out = "FileNotFound"

(***************************************************************************)
(* C17: a response header whose status byte is not 0, from a tracker or a  *)
(* storage server, ends the exchange with put: no body is read, the        *)
(* connection is handed to put open, and the exchange fails with           *)
(* map_status_to_error(status).                                            *)
(***************************************************************************)
C17_Refused ==
    \A t \in ClientTasks :
        op[t].status # 0
            => /\ pc[t] \in {"put_chk", "put_lock", "released"}
               /\ res[t] = MapStatusToError(op[t].status)
               /\ res[t] # "Ok"

C17_Step ==
    \A t \in ClientTasks :
        /\ (pc[t] = "recv_hdr" /\ op'[t].status # 0)
              => /\ pc'[t] = "put_chk"
                 /\ conn'[t] = conn[t]
                 /\ conns'[conn[t]].st = "open"
                 /\ conns'[conn[t]].wire
                       \in {AfterHeader(conns[conn[t]].wire, ln) : ln \in Lens}
        /\ (op[t].status # 0 /\ pc[t] = "released" /\ pc'[t] # pc[t])
              => /\ pc'[t] \in {"idle", "sleep"}
                 /\ res'[t] = IF op[t].inner THEN "Ok" ELSE res[t]

C17_StatusFailsWithPut == []C17_Refused /\ [][C17_Step]_vars

\* A storage server has refused an upload with a status that has no error of
\* its own, and put has taken the connection into the free-list.
C17_Witness ==
    \E t \in ClientTasks :
        /\ pc[t] = "released"
        /\ Running(t) = "upload"
        /\ pl[t] = "storage"
        /\ op[t].status = 5
        /\ res[t] = "Protocol"
        /\ Idle("storage") # {}

(***************************************************************************)
(* C18: map_status_to_error gives no error for status 0, FileNotFound for  *)
(* 2, FileAlreadyExists for 6, InvalidArgument for 22, InsufficientSpace   *)
(* for 28, and for every other status byte s a Protocol error whose code   *)
(* is s.                                                                   *)
(***************************************************************************)
C18_StatusMapping ==
    \A t \in ClientTasks :
        LET s == op[t].status
            e == StatusError(s)
        IN  /\ s = 0 <=> e = None
            /\ s = 2 <=> e.err = "FileNotFound"
            /\ s = 6 <=> e.err = "FileAlreadyExists"
            /\ s = 22 <=> e.err = "InvalidArgument"
            /\ s = 28 <=> e.err = "InsufficientSpace"
            /\ s \notin {0, 2, 6, 22, 28} <=> e.err = "Protocol"
            /\ e.err = "Protocol" => e.code = s
            /\ res[t] # "none" => res[t] = e.err

\* The largest status byte has been mapped to a Protocol error.
C18_Witness ==
    \E t \in ClientTasks :
        /\ op[t].status = U8Max
        /\ res[t] = "Protocol"

(***************************************************************************)
(* C19: the section of get under the pools lock hands out the topmost      *)
(* entry of the address's free-list that has been idle for less than       *)
(* idle_timeout, closes every entry above it and leaves the entries below  *)
(* it; when no entry is that fresh the list is emptied, every entry is     *)
(* closed and get goes on to open a new connection.                        *)
(***************************************************************************)
FreeList(p, a) == IF a \in DOMAIN pools[p] THEN pools[p][a] ELSE <<>>

C19_Step ==
    \A t \in PoolTasks :
        /\ (pc[t] = "get_lock" /\ pc'[t] # "get_lock")
              => LET lst == FreeList(pl[t], arg[t])
                     fresh == {i \in 1..Len(lst) : conns[lst[i]].elapsed < IdleTimeout}
                     top == CHOOSE i \in fresh : \A j \in fresh : j <= i
                 IN  IF fresh # {}
                     THEN /\ conn'[t] = lst[top]
                          /\ res'[t] = "Ok"
                          /\ pc'[t] = ret[t]
                          /\ pools'[pl[t]][arg[t]] = SubSeq(lst, 1, top - 1)
                          /\ \A j \in 1..Len(lst) :
                                IF j > top THEN conns'[lst[j]].st = "free"
                                           ELSE conns'[lst[j]] = conns[lst[j]]
                     ELSE /\ pc'[t] = "get_conn"
                          /\ conn'[t] = NoConn
                          /\ pools'[pl[t]][arg[t]] = <<>>
                          /\ \A j \in 1..Len(lst) : conns'[lst[j]].st = "free"
        /\ (pc[t] = "get_conn" /\ pc'[t] # "get_conn" /\ conn'[t] # NoConn)
              => /\ conns[conn'[t]].st = "free"
                 /\ conns'[conn'[t]] = ConnectionNew(arg[t])
                 /\ pools' = pools

C19_GetTakesTopFresh == [][C19_Step]_vars

\* A get is at a free-list whose top entry has been idle for idle_timeout and
\* whose entry below is fresh.
C19_Witness ==
    \E t \in PoolTasks :
        /\ pc[t] = "get_lock"
        /\ LET lst == FreeList(pl[t], arg[t])
           IN  /\ Len(lst) = 2
               /\ conns[lst[1]].elapsed < IdleTimeout
               /\ conns[lst[2]].elapsed >= IdleTimeout

(***************************************************************************)
(* C20: put, in its section under the pools lock, of a fresh connection to *)
(* a pool that is not closed and whose free-list for the address holds     *)
(* fewer than max_conns entries.                                           *)
(***************************************************************************)
PutsFresh(t) ==
    /\ pc[t] = "put_lock"
    /\ pc'[t] # "put_lock"
    /\ ~closed[pl[t]]
    /\ conns[conn[t]].elapsed < IdleTimeout
    /\ Len(FreeList(pl[t], conns[conn[t]].addr)) < max_conns

\* As claimed: the free-list is one entry longer and the released connection
\* is its top.
C20_GrowsStep ==
    \A t \in PoolTasks :
        PutsFresh(t)
            => LET a == conns[conn[t]].addr
                   lst == FreeList(pl[t], a)
                   after == pools'[pl[t]][a]
               IN  /\ Len(after) = Len(lst) + 1
                   /\ after[Len(after)] = conn[t]

C20_GrowsByOne == [][C20_GrowsStep]_vars

\* As the code has it: the released connection is the top of the free-list,
\* open and as fresh as it was, so that get takes it; below it are, in their
\* order, the entries that have been idle for at most idle_timeout; the
\* entries idle for longer are closed.  The list is one entry longer exactly
\* when no entry was idle for longer than idle_timeout.
C20_Step ==
    \A t \in PoolTasks :
        PutsFresh(t)
            => LET a == conns[conn[t]].addr
                   c == conn[t]
                   lst == FreeList(pl[t], a)
                   kept == {i \in 1..Len(lst) : conns[lst[i]].elapsed <= IdleTimeout}
                   after == pools'[pl[t]][a]
               IN  /\ Len(after) = Cardinality(kept) + 1
                   /\ after[Len(after)] = c
                   /\ conns'[c] = conns[c]
                   /\ conn'[t] = NoConn
                   /\ \A i \in 1..Len(lst) :
                         IF i \in kept
                         THEN /\ conns'[lst[i]] = conns[lst[i]]
                              /\ after[Cardinality({j \in kept : j <= i})] = lst[i]
                         ELSE conns'[lst[i]].st = "free"
                   /\ (Len(after) = Len(lst) + 1) <=> (kept = 1..Len(lst))

C20_PutPushesOnTop == [][C20_Step]_vars

\* A put of a fresh connection is at a free-list whose only entry has been
\* idle for longer than idle_timeout.
C20_Witness ==
    \E t \in PoolTasks :
        /\ pc[t] = "put_lock"
        /\ ~closed[pl[t]]
        /\ conns[conn[t]].elapsed < IdleTimeout
        /\ LET lst == FreeList(pl[t], conns[conn[t]].addr)
           IN  /\ Len(lst) = 1
               /\ Len(lst) < max_conns
               /\ conns[lst[1]].elapsed > IdleTimeout

(***************************************************************************)
(* C21: put, in its section under the pools lock, at a free-list that      *)
(* holds max_conns connections or more: the connection is closed, no       *)
(* free-list changes, the closed flag does not change and no connection    *)
(* in a free-list is touched.                                              *)
(***************************************************************************)
C21_Step ==
    \A t \in PoolTasks :
        (/\ pc[t] = "put_lock"
         /\ pc'[t] # "put_lock"
         /\ Len(FreeList(pl[t], conns[conn[t]].addr)) >= max_conns)
            => /\ pools' = pools
               /\ closed' = closed
               /\ conns'[conn[t]].st = "free"
               /\ conn'[t] = NoConn
               /\ \A c \in Idle(pl[t]) : conns'[c] = conns[c]

C21_FullPoolUnchanged == [][C21_Step]_vars

\* A put is at a free-list that holds max_conns connections, one of them
\* idle for longer than idle_timeout.
C21_Witness ==
    \E t \in PoolTasks :
        /\ pc[t] = "put_lock"
        /\ max_conns > 0
        /\ ~closed[pl[t]]
        /\ LET lst == FreeList(pl[t], conns[conn[t]].addr)
           IN  /\ Len(lst) = max_conns
               /\ conns[lst[1]].elapsed > IdleTimeout

(***************************************************************************)
(* C22: an endpoint that no task passes to get or add_addr and that is not *)
(* the first configured address has no connection: none is open to it, in  *)
(* a task's hands or in a free-list, and no call is at work for it.        *)
(***************************************************************************)
Endpoints == SeqElems(TrackerAddrs) \cup StorageAddrs

\* The endpoints the tasks of SpecPool refer to.
Referenced == {PoolAddrs(PoolUnderTest)[1]} \cup (PoolArgs \ {NoAddr})

C22_UnreferencedUntouched ==
    \A a \in Endpoints \ Referenced :
        /\ \A c \in Open : conns[c].addr # a
        /\ FreeList(PoolUnderTest, a) = <<>>
        /\ \A t \in PoolTasks : arg[t] # a

\* Connections are open to both endpoints that are referred to, one of them
\* in a free-list.
C22_Witness ==
    /\ \A a \in Referenced : \E c \in Open : conns[c].addr = a
    /\ Idle(PoolUnderTest) # {}
    /\ Endpoints \ Referenced # {}

(***************************************************************************)
(* C23: download_file, delete_file, set_metadata, get_metadata and         *)
(* get_file_info with a file ID that split_file_id rejects never call a    *)
(* pool, hold no connection, open none, and return InvalidFileId.          *)
(***************************************************************************)
FileIdKinds == {"download", "delete", "set_metadata", "get_metadata", "get_file_info"}

\* The call of task t has a file ID that split_file_id rejects.
Malformed(t) ==
    /\ pc[t] # "idle"
    /\ op[t].kind \in FileIdKinds
    /\ ~op[t].inner
    /\ ~op[t].valid

C23_Offline ==
    \A t \in ClientTasks :
        Malformed(t) => /\ pc[t] \in {"attempt", "sleep"}
                        /\ conn[t] = NoConn
                        /\ owed[t] = 0

C23_Step ==
    \A t \in ClientTasks :
        /\ Malformed(t) => conns' = conns \/ pc'[t] = pc[t]
        /\ (Malformed(t) /\ pc'[t] = "idle") => res'[t] = "InvalidFileId"

C23_MalformedFileId == []C23_Offline /\ [][C23_Step]_vars

(***************************************************************************)
(* C24: file_exists returns true or false and never an error: true when    *)
(* check_closed let the call through and get_file_info came to its end     *)
(* with Ok (the storage exchange done, its body parsed, the connection put *)
(* back), false for a closed client and for every error of get_file_info.  *)
(***************************************************************************)
\* get_file_info is about to return Ok.
InfoOk(t) ==
    /\ pc[t] = "released"
    /\ pl[t] = "storage"
    /\ res[t] = "Ok"

C24_Boolean ==
    \A t \in ClientTasks :
        (op[t].kind = "file_exists" /\ pc[t] = "idle") => res[t] \in {"true", "false"}

C24_Step ==
    \A t \in ClientTasks :
        /\ (pc[t] = "idle" /\ op'[t] # op[t] /\ op'[t].kind = "file_exists")
              => IF clientClosed
                 THEN pc'[t] = "idle" /\ res'[t] = "false"
                 ELSE pc'[t] = "attempt"
        /\ (op[t].kind = "file_exists" /\ pc[t] # "idle" /\ pc'[t] = "idle")
              => res'[t] = IF InfoOk(t) THEN "true" ELSE "false"

C24_FileExistsNeverFails == []C24_Boolean /\ [][C24_Step]_vars

\* file_exists has returned false to a client that is not closed.
C24_Witness ==
    \E t \in ClientTasks :
        /\ op[t].kind = "file_exists"
        /\ pc[t] = "idle"
        /\ res[t] = "false"
        /\ ~clientClosed

(***************************************************************************)
(* C25: the tracker pool is asked for the first configured tracker only    *)
(* and connections are open to that tracker and to storage servers only:   *)
(* in every attempt the tracker query goes to the first tracker.           *)
(***************************************************************************)
FirstTracker == TrackerAddrs[1]

C26_Budget ==
    \A t \in ClientTasks :
        /\ (op[t].kind \in RetryKinds /\ pc[t] \notin {"idle", "attempt"})
              => op[t].attempt + 1 <= retry_count
        /\ op[t].kind \notin RetryKinds => op[t].attempt = 0
        /\ (pc[t] = "idle" /\ op[t].kind # "none") => res[t] \in {"Ok"} \cup ErrorKinds

C26_Returns == \A t \in ClientTasks : (pc[t] # "idle") ~> (pc[t] = "idle")

C26_EveryCallReturns == []C26_Budget /\ C26_Returns

\* An upload has returned the error of its last attempt, which could not
\* connect.
C26_Witness ==
    \E t \in ClientTasks :
        /\ retry_count > 1
        /\ pc[t] = "idle"
        /\ op[t].kind = "upload"
        /\ op[t].attempt = retry_count - 1
        /\ res[t] = "ConnectionTimeout"


(***************************************************************************)
(* C27  Framing.  For every request of every operation, to a tracker or to *)
(* a storage server, the first thing sent is the 10-byte header, and the   *)
(* body_length in its first 8 bytes is the exact number of body bytes the  *)
(* client sends after it: never fewer while the request is going out, and  *)
(* equal once the last send has been made.                                 *)
(***************************************************************************)
RECURSIVE BytesIn(_)
BytesIn(chunks) ==
    IF chunks = <<>> THEN 0 ELSE Len(Head(chunks)) + BytesIn(Tail(chunks))

C27_HeaderFirst ==
    written # <<>> =>
        /\ Len(written[1]) = HeaderLen
        /\ written[1][9] = Cmd(req.kind)
        /\ written[1][10] = 0

C27_BodyCounted ==
    written # <<>> =>
        /\ BytesIn(Tail(written)) <= DecodeInt64(written[1])
        /\ Len(written) = Len(Chunks(req)) =>
                BytesIn(Tail(written)) = DecodeInt64(written[1])

C27_HeaderCountsBody ==
    req.kind \in RequestKinds => C27_HeaderFirst /\ C27_BodyCounted

C27_Witness ==
    /\ req.kind = "set_metadata"
    /\ DOMAIN req.meta # {}
    /\ Len(written) = 2
    /\ DecodeInt64(written[1]) = Len(written[2])
    /\ Len(written[2]) > 2 * 8 + 1 + GroupNameMaxLen + Len(req.fname)


(***************************************************************************)
(* C28  Download body.  The body of every download request is, in this     *)
(* order: the offset as 8 big-endian bytes, the length as 8 big-endian     *)
(* bytes, the group name zero-padded to 16 bytes, then the bytes of the    *)
(* remote filename.                                                        *)
(***************************************************************************)
RECURSIVE Flatten(_)
Flatten(chunks) ==
    IF chunks = <<>> THEN <<>> ELSE Head(chunks) \o Flatten(Tail(chunks))

C28_DownloadBody ==
    (req.kind = "download" /\ Len(written) = Len(Chunks(req))) =>
        Flatten(Tail(written)) =
            EncodeInt64(req.offset) \o EncodeInt64(req.length)
                \o PadString(req.group, GroupNameMaxLen) \o req.fname


(***************************************************************************)
(* C29  Metadata round trip.  For every metadata map m whose keys have at  *)
(* most 64 bytes and whose values have at most 256 bytes,                  *)
(* decode_metadata(encode_metadata(m)) is m.                               *)
(***************************************************************************)
WithinLimits(m) ==
    \A k \in DOMAIN m :
        Len(k) <= MaxMetaNameLen /\ Len(m[k]) <= MaxMetaValueLen

C29_MetadataRoundTrip ==
    (req.kind = "metadata" /\ WithinLimits(req.meta) /\ Len(written) = 2) =>
        written[2] = req.meta


(***************************************************************************)
(* C30  Pad round trip.  For every string s and width n with len(s) <= n,  *)
(* pad_string(s, n) has exactly n bytes and                                *)
(* unpad_string(pad_string(s, n)) is s.                                    *)
(***************************************************************************)
C30_PadRoundTrip ==
    (req.kind = "pad" /\ Len(req.str) <= req.length) =>
        /\ Len(written) >= 1 => Len(written[1]) = req.length
        /\ Len(written) = 2 => written[2] = req.str


(***************************************************************************)
(* C31  File IDs.  split_file_id fails with InvalidFileId for the empty    *)
(* string, a string without '/', an empty group, an empty remainder and a  *)
(* group longer than 16 bytes; it succeeds for every "a/b" with            *)
(* 1 <= len(a) <= 16 and len(b) >= 1, splitting at the first '/'; and      *)
(* join_file_id of the two parts gives back the file ID.                   *)
(***************************************************************************)
\* The position of the first '/' of id, 0 when it has none.
FirstSlash(id) ==
    IF \E i \in 1..Len(id) : id[i] = Slash
    THEN CHOOSE i \in 1..Len(id) :
            id[i] = Slash /\ \A j \in 1..(i - 1) : id[j] # Slash
    ELSE 0

\* The file IDs the property calls valid: "a/b" cut at the first '/'.
ValidId(id) ==
    /\ FirstSlash(id) >= 2
    /\ FirstSlash(id) - 1 <= 16
    /\ Len(id) - FirstSlash(id) >= 1

C31_Split ==
    Len(written) >= 1 =>
        IF ValidId(req.id)
        THEN /\ written[1].err = "Ok"
             /\ written[1].group_name = SubSeq(req.id, 1, FirstSlash(req.id) - 1)
             /\ written[1].remote_filename =
                    SubSeq(req.id, FirstSlash(req.id) + 1, Len(req.id))
        ELSE written[1] = InvalidFileId

C31_Join == Len(written) = 2 => written[2] = req.id

C31_FileIdCodec == req.kind = "file_id" => C31_Split /\ C31_Join

\* "aaaaaaaaaaaaaaaa/a/" : a 16-byte group, a remainder holding a '/'.
C31_Witness ==
    /\ req.kind = "file_id"
    /\ Len(written) = 2
    /\ FirstSlash(req.id) = GroupNameMaxLen + 1
    /\ \E i \in (FirstSlash(req.id) + 1)..Len(req.id) : req.id[i] = Slash
    /\ written[2] = req.id


(***************************************************************************)
(* C32  File extension.  get_file_ext_name returns the bytes after the     *)
(* last '.' of the final path component, nothing when that component has   *)
(* no '.', cut to at most 6 bytes; a name whose only '.' is its first      *)
(* byte, such as ".hidden", yields what follows the '.'.                   *)
(***************************************************************************)
\* The bytes of s after its last byte b; all of s when b is not in it.
AfterLast(s, b) ==
    LET at == {i \in 1..Len(s) : s[i] = b}
    IN  IF at = {} THEN s
        ELSE SubSeq(s, (CHOOSE x \in at : \A y \in at : y <= x) + 1, Len(s))

C32_Expected(filename) ==
    LET component == AfterLast(filename, Slash)
        ext == IF \E i \in 1..Len(component) : component[i] = Dot
               THEN AfterLast(component, Dot) ELSE <<>>
    IN  SubSeq(ext, 1, Min(Len(ext), 6))

C32_ExtensionAfterLastDot ==
    (req.kind = "ext" /\ Len(written) = 1) =>
        written[1] = C32_Expected(req.filename)


(***************************************************************************)
(* C33  Register before get.  In every attempt of every operation the      *)
(* address the tracker has just answered is handed to                      *)
(* storage_pool.add_addr, and only when add_addr has returned to           *)
(* storage_pool.get, with the same address.  When the storage connection   *)
(* is later put back and the storage pool is not closed, the pool has a    *)
(* free-list for the connection's endpoint, so the connection is not       *)
(* dropped for lack of one.                                                *)
(***************************************************************************)
\* While add_addr or the storage get runs, the address is a tracker's answer.
C33_AddressKnown ==
    \A t \in ClientTasks :
        (pc[t] \in {"add_chk", "add_lock", "s_get"}
            \/ (pl[t] = "storage" /\ pc[t] \in {"get_chk", "get_lock", "get_conn"}))
        => pl[t] = "storage" /\ arg[t] \in StorageAddrs

C33_Step ==
    \A t \in ClientTasks :
        \* the address is the one the tracker answered in this attempt
        /\ (arg'[t] # arg[t] /\ arg'[t] \in StorageAddrs) =>
               /\ pc[t] = "recv_body" /\ pl[t] = "tracker"
               /\ arg[t] \notin StorageAddrs
        \* add_addr is called with it when the tracker connection is back
        /\ (pc'[t] = "add_chk" /\ pc[t] # "add_chk") =>
               /\ pc[t] = "released" /\ pl[t] = "tracker"
               /\ arg'[t] = arg[t] /\ ret'[t] = "s_get"
        \* get on the storage pool follows the return of add_addr
        /\ (pc'[t] = "s_get" /\ pc[t] # "s_get") =>
               /\ pc[t] \in {"add_chk", "add_lock"}
               /\ arg'[t] = arg[t]
               /\ pc[t] = "add_lock" => arg[t] \in DOMAIN pools'["storage"]
        /\ (pl'[t] = "storage" /\ pc'[t] = "get_chk" /\ pc[t] # "get_chk") =>
               pc[t] = "s_get" /\ arg'[t] = arg[t]
        \* put on a pool that is not closed finds the free-list
        /\ (pc[t] = "put_lock" /\ pc'[t] # "put_lock" /\ pl[t] = "storage"
                /\ ~closed["storage"]) =>
               conns[conn[t]].addr \in DOMAIN pools["storage"]

C33_RegisterBeforeGet == []C33_AddressKnown /\ [][C33_Step]_vars

\* A storage connection was put back and is in the free-list of its endpoint.
C33_Witness ==
    \E t \in ClientTasks, a \in StorageAddrs :
        /\ pc[t] = "released" /\ pl[t] = "storage" /\ arg[t] = a
        /\ ~closed["storage"]
        /\ a \in DOMAIN pools["storage"]
        /\ pools["storage"][a] # <<>>
        /\ conns[pools["storage"][a][1]].addr = a


(***************************************************************************)
(* C34  One connection at a time.  An operation holds at most one          *)
(* checked-out connection at any time: the tracker connection has been put *)
(* back or dropped when the storage connection is asked for, and the       *)
(* storage connection of an upload has been put back when the set_metadata *)
(* after the upload asks for a connection.                                 *)
(***************************************************************************)
\* The connections checked out by task t and neither put back nor dropped.
CheckedOut(t) == owed[t]

C34_AtMostOne ==
    \A t \in ClientTasks :
        /\ CheckedOut(t) \in {0, 1}
        /\ CheckedOut(t) = 1 => conn[t] \in Open

C34_Step ==
    \A t \in ClientTasks :
        \* a call of get, on either pool, by a task that holds nothing
        /\ (pc'[t] = "get_chk" /\ pc[t] # "get_chk") =>
               CheckedOut(t) = 0 /\ conn[t] = NoConn
        \* the set_metadata after an upload starts with nothing in hand
        /\ (op'[t].inner /\ ~op[t].inner) =>
               /\ pl[t] = "storage" /\ pc[t] = "released"
               /\ CheckedOut(t) = 0 /\ conn[t] = NoConn

C34_OneConnectionAtATime == []C34_AtMostOne /\ [][C34_Step]_vars

\* The set_metadata after an upload holds its storage connection.
C34_Witness ==
    \E t \in ClientTasks :
        /\ op[t].inner /\ pl[t] = "storage" /\ pc[t] = "recv_hdr"
        /\ CheckedOut(t) = 1


(***************************************************************************)
(* C35  Lock discipline.  No task holds the pools mutex while it opens a   *)
(* TCP connection, and no task holds the closed mutex and the pools mutex  *)
(* at the same time.  Hence concurrent get, put, add_addr and close cannot *)
(* deadlock: a task inside a call can take a step, or waits for a mutex    *)
(* whose holder can.  And a connect that does not return keeps no mutex    *)
(* from the get and put calls for another endpoint.                        *)
(***************************************************************************)
InCall(t) == pc[t] # "idle"

\* The mutex task t waits for, if any.
WaitsFor(t) ==
    IF pc[t] \in WaitsClosed THEN {ClosedMutex(pl[t])}
    ELSE IF pc[t] \in WaitsPools THEN {PoolsMutex(pl[t])}
    ELSE {}

C35_ConnectUnlocked ==
    \A t \in LockTasks : pc[t] = "get_conn" => held[t] = {}

C35_NeverBoth ==
    \A t \in LockTasks : Cardinality(held[t]) <= 1

C35_NoDeadlock ==
    \A t \in LockTasks :
        InCall(t) =>
            \/ ENABLED LockStep(t)
            \/ \E u \in LockTasks \ {t} :
                  /\ WaitsFor(t) \subseteq held[u]
                  /\ ENABLED LockStep(u)

\* While a task connects, another task's wait for a mutex finds it free or
\* with a holder that is not the connecting task and can go on.
C35_SlowConnect ==
    \A t, u \in LockTasks :
        (pc[t] = "get_conn" /\ u # t /\ WaitsFor(u) # {}) =>
            \A m \in WaitsFor(u) : m \notin held[t]

C35_LockDiscipline ==
    C35_ConnectUnlocked /\ C35_NeverBoth /\ C35_NoDeadlock /\ C35_SlowConnect

\* One task connects to an endpoint while the other is inside the pools
\* section of a get for another endpoint.
C35_Witness ==
    \E t, u \in LockTasks :
        /\ pc[t] = "get_conn"
        /\ pc[u] = "get_lock_in"
        /\ arg[u] # arg[t]
        /\ held[u] = {PoolsMutex(pl[u])}


(***************************************************************************)
(* C36  One attempt.  set_metadata, get_metadata and get_file_info, and    *)
(* the set_metadata inside an upload, make exactly one attempt whatever    *)
(* retry_count is: every error ends the call at once, there is no backoff  *)
(* sleep and no second tracker lookup.                                     *)
(***************************************************************************)
SingleKinds == {"set_metadata", "get_metadata", "get_file_info"}

\* Task t is inside one of these calls.
OneShot(t) == pc[t] # "idle" /\ (op[t].inner \/ op[t].kind \in SingleKinds)

C36_NoSleep ==
    \A t \in ClientTasks :
        OneShot(t) =>
            /\ pc[t] # "sleep"
            /\ op[t].nap = 0
            /\ op[t].kind \in SingleKinds => op[t].attempt = 0

\* The step of a one-shot call fails: split_file_id, get, or the put after a
\* refused request came back with an error, or a send or receive_full fails.
FailsNow(t) ==
    \/ pc[t] = "attempt" /\ ~op[t].valid
    \/ pc[t] \in {"send", "released"} /\ res[t] # "Ok"
    \/ pc[t] \in {"send", "recv_hdr", "recv_body"}
          /\ conn[t] # NoConn /\ conn'[t] = NoConn

C36_Step ==
    \A t \in ClientTasks :
        \* the attempt starts with the call and never again
        /\ (pc'[t] = "attempt" /\ pc[t] # "attempt") =>
               /\ op'[t].kind \in SingleKinds => pc[t] = "idle"
               /\ op'[t].inner => (~op[t].inner /\ pc[t] = "released")
        \* one tracker lookup: the tracker pool is asked at the start only
        /\ (OneShot(t) /\ pl'[t] = "tracker" /\ pc'[t] = "get_chk"
                /\ pc[t] # "get_chk") => pc[t] = "attempt"
        \* an error ends the call in the task's next step
        /\ (OneShot(t) /\ FailsNow(t) /\ pc'[t] # pc[t]) =>
               /\ pc'[t] = "idle"
               /\ op'[t].attempt = op[t].attempt
               /\ IF op[t].inner
                  THEN res'[t] = "Ok" /\ op'[t].meta_out # "Ok"
                  ELSE res'[t] \notin {"Ok", "none"}

C36_SingleAttempt == []C36_NoSleep /\ [][C36_Step]_vars

\* A get_metadata of a client with retry_count = 3 has returned the error of
\* its only attempt.
C36_Witness ==
    \E t \in ClientTasks :
        /\ retry_count = MaxBudget
        /\ pc[t] = "idle"
        /\ op[t].kind = "get_metadata"
        /\ op[t].attempt = 0
        /\ res[t] \in IoErrors



(***************************************************************************)
(* C37: when an operation is cancelled at a suspension point (in send or   *)
(* receive, in a backoff sleep, waiting for a pool mutex inside get or     *)
(* put) the connection it holds is dropped and enters no free-list, and    *)
(* afterwards every connection is still in at most one place and every     *)
(* free-list holds at most max_conns connections.                          *)
(***************************************************************************)
C37_PoolInvariants ==
    /\ \A c \in ConnIds : Cardinality(Holders(c)) + TimesIdle(c) <= 1
    /\ \A c \in Open : Cardinality(Holders(c)) + TimesIdle(c) = 1
    /\ \A p \in PoolIds : \A e \in DOMAIN pools[p] : Len(pools[p][e]) <= max_conns

C37_Step ==
    \A t \in ClientTasks :
        (pc[t] \in SuspensionPoints /\ pc'[t] = "idle" /\ res'[t] = "Cancelled")
            => /\ pools' = pools
               /\ conn'[t] = NoConn
               /\ conn[t] # NoConn
                     => /\ conns'[conn[t]].st = "free"
                        /\ \A p \in PoolIds : conn[t] \notin Idle(p)'

C37_CancelDropsConnection == []C37_PoolInvariants /\ [][C37_Step]_vars

\* An operation was cancelled while it read a response body from a connection
\* it held; another connection is idle in a free-list.
C37_Witness ==
    \E t \in ClientTasks :
        /\ pc[t] = "idle" /\ res[t] = "Cancelled" /\ op[t].len # "zero"
        /\ conn[t] = NoConn
        /\ \E p \in PoolIds : Idle(p) # {}



(***************************************************************************)
(* C38: after any sequence of get, put, add_addr and close every           *)
(* connection in the free-list keyed by endpoint e was opened to e: put    *)
(* files a connection under its own addr, and get(e) returns a connection  *)
(* opened to e (to the pool's first address for get(None)).                *)
(***************************************************************************)
C38_KeyedByOwnAddr ==
    \A p \in PoolIds : \A e \in DOMAIN pools[p] :
        \A c \in SeqElems(pools[p][e]) : conns[c].st = "open" /\ conns[c].addr = e

C38_Step ==
    \A t \in PoolTasks :
        /\ (pc[t] = "get_chk" /\ pc'[t] = "get_lock")
              => arg'[t] = IF arg[t] = NoAddr THEN PoolAddrs(pl[t])[1] ELSE arg[t]
        /\ (pc[t] \in {"get_lock", "get_conn"} /\ conn'[t] # NoConn)
              => conns'[conn'[t]].addr = arg[t]
        /\ pc[t] = "put_lock"
              => \A e \in DOMAIN pools'[pl[t]] :
                     conn[t] \in SeqElems(pools'[pl[t]][e]) => e = conns[conn[t]].addr

C38_FreeListsKeyedByEndpoint == []C38_KeyedByOwnAddr /\ [][C38_Step]_vars

\* Two endpoints of one pool have an idle connection each, opened by get and
\* filed by put.
C38_Witness ==
    \E p \in PoolIds : \E e, f \in DOMAIN pools[p] :
        /\ e # f
        /\ pools[p][e] # <<>> /\ pools[p][f] # <<>>
        /\ conns[pools[p][e][1]].addr = e /\ conns[pools[p][f][1]].addr = f



(***************************************************************************)
(* C39: with retry_count = 0 upload_buffer, download_file and delete_file  *)
(* make no attempt: the call goes from its loop test straight to the       *)
(* return of InvalidArgument, without a pool call and without a byte on    *)
(* the network.                                                            *)
(***************************************************************************)
C39_NoAttempt ==
    \A t \in ClientTasks :
        (retry_count = 0 /\ op[t].kind \in RetryKinds) =>
            /\ pc[t] \in {"idle", "attempt"}
            /\ conn[t] = NoConn /\ owed[t] = 0
            /\ op[t].sent = 0 /\ op[t].attempt = 0
            /\ pc[t] = "idle" => res[t] = "InvalidArgument"

C39_Step ==
    \A t \in ClientTasks :
        (retry_count = 0 /\ op[t].kind \in RetryKinds /\ pc[t] = "attempt"
                         /\ pc'[t] # pc[t])
            => /\ pc'[t] = "idle"
               /\ res'[t] = "InvalidArgument"
               /\ UNCHANGED <<poolVars, pl, arg>>

C40_Wrapped(n) == n - 65536 * (n \div 65536)

C40_LongEnough ==
    Len(req.body) >= GroupNameMaxLen + IpAddressSize
                        + (IF req.query = "store" THEN 9 ELSE 8)

C40_PortWraps ==
    req.kind = "tracker_resp" =>
        /\ (Len(written) >= 1 /\ C40_LongEnough)
              => /\ "err" \notin DOMAIN written[1]
                 /\ written[1].ip_addr = req.ip
                 /\ written[1].port = C40_Wrapped(req.port)
        /\ (Len(written) >= 1 /\ ~C40_LongEnough)
              => written[1] = [err |-> "InvalidResponse"]
        /\ Len(written) = 2
              => written[2] = req.ip \o <<58>> \o Decimal(C40_Wrapped(req.port))

\* The tracker reported port 65536 + 23000 and the storage address ends in
\* ":23000".
C40_Witness ==
    /\ req.kind = "tracker_resp"
    /\ req.port = 65536 + 23000
    /\ Len(written) = 2
    /\ written[1].port = 23000
    /\ written[2] = req.ip \o <<58, 50, 51, 48, 48, 48>>

=============================================================================
